---- MODULE Spec2Model ----
(***************************************************************************)
(* State-machine model of the CadQuery MCP server                          *)
(* (src/cadquery_fastmcp.py): the workspace table, the active-workspace    *)
(* pointer, each workspace's object mapping and current object, the        *)
(* scratch directory of exported artifacts, and the value each tool call   *)
(* returns.  Each tool is one action; a tool runs to completion.           *)
(* The editor bridge (src/cq_editor_bridge.py) adds the editor process it  *)
(* tracks; the operating system's processes are part of the state.         *)
(*                                                                         *)
(* The geometry kernel (cadquery) is outside the repository.  Its shapes   *)
(* are modelled as strings naming the construction, its calls may raise    *)
(* (the `fault` input of an action), and what its STEP exporter leaves on  *)
(* disk is an input of export_object (`written`), since the code itself    *)
(* re-opens the file and distrusts it.                                     *)
(***************************************************************************)
EXTENDS Integers, Sequences, FiniteSets, TLC

VARIABLES
    CADQUERY_AVAILABLE,     \* cadquery_fastmcp.py:15-21, fixed at import
    workspaces,             \* cadquery_fastmcp.py:31
    current_workspace_id,   \* cadquery_fastmcp.py:32
    files,                  \* the file system: path -> text content
    ret,                    \* what the last tool call returned (or raised)
    bridge,                 \* cq_editor_bridge.py:23, the CQEditorBridge object
    processes,              \* the operating system: pid -> "running" / "exited"
    os_calls,               \* the process calls the last bridge method made
    bridge_files,           \* the bridge's scratch directory: path -> file content
    os_linesep,             \* os.linesep of the host, fixed at start
    in_flight               \* request id -> the tool call a host thread is running

\* The editor bridge and what it acts on.
editor_vars == <<bridge, processes, os_calls, bridge_files, os_linesep>>

vars == <<CADQUERY_AVAILABLE, workspaces, current_workspace_id, files, ret,
          bridge, processes, os_calls, bridge_files, os_linesep, in_flight>>

(***************************************************************************)
(* Bounds and input sets                                                   *)
(***************************************************************************)
\* Total number of objects registered over all workspaces.
MaxObjects == 2
\* Number of files in the scratch directory when an export adds one.
MaxFiles == 2
\* Total number of objects in the specification of the creating tools.
MaxCreated == 3
\* Number of kernel constructions a shape is built from (a boolean of two
\* primitives is built from three).
MaxShapeSize == 3
\* Number of files on disk when an export_step adds its artifacts.
MaxStepFiles == 3
\* Number of editor processes ever spawned.
MaxProcesses == 6
\* Number of requests a host that runs tools on several threads accepts.
MaxRequests == 3

\* Python's None (no explicit name given, no current object).
None == "<None>"
\* self.cq_editor_process = None: no Popen object is tracked (pids start at 1).
NoProcess == 0

WsNames == {"default", "w1"}
ExplicitNames == {"box_1"}
NameArgs == ExplicitNames \cup {None}
\* <<width, length, height, centered>>
BoxArgs == {<<1, 1, 1, TRUE>>, <<2, 3, 4, FALSE>>}
\* <<radius, height, centered>>
CylinderArgs == {<<1, 5, TRUE>>}
Operations == {"union", "subtract", "intersect", "invalid"}
Formats == {"stl", "STL", "step", "Step", "stp", "xyz"}
\* Where a call into the geometry kernel raises during one tool call.
EngineFaults == {"none", "construct", "export"}
\* What the kernel's STEP exporter leaves at the output path when it returns.
StepOutputs == {"valid", "noheader", "empty", "missing"}

temp_dir == "/tmp/cadquery_mcp_"

(***************************************************************************)
(* Strings                                                                 *)
(***************************************************************************)
Min(S) == CHOOSE m \in S : \A n \in S : m <= n

\* Python: sub in s
Contains(s, sub) ==
    \E i \in 1..(Len(s) - Len(sub) + 1) : SubSeq(s, i, i + Len(sub) - 1) = sub

\* Python: s.endswith(suffix)
EndsWith(s, suffix) ==
    /\ Len(s) >= Len(suffix)
    /\ SubSeq(s, Len(s) - Len(suffix) + 1, Len(s)) = suffix

UpperChars == "ABCDEFGHIJKLMNOPQRSTUVWXYZ"
LowerChars == "abcdefghijklmnopqrstuvwxyz"

\* upper-case letter -> lower-case letter, and back
ToLower == [c \in {SubSeq(UpperChars, i, i) : i \in 1..26} |->
               LET i == CHOOSE j \in 1..26 : SubSeq(UpperChars, j, j) = c
               IN  SubSeq(LowerChars, i, i)]
ToUpper == [c \in {SubSeq(LowerChars, i, i) : i \in 1..26} |->
               LET i == CHOOSE j \in 1..26 : SubSeq(LowerChars, j, j) = c
               IN  SubSeq(UpperChars, i, i)]

LowerChar(c) == IF c \in DOMAIN ToLower THEN ToLower[c] ELSE c

RECURSIVE Lower(_)
\* Python: s.lower()
Lower(s) ==
    IF Len(s) = 0 THEN s
    ELSE LowerChar(SubSeq(s, 1, 1)) \o Lower(SubSeq(s, 2, Len(s)))

RECURSIVE Upper(_)
UpperChar(c) == IF c \in DOMAIN ToUpper THEN ToUpper[c] ELSE c
\* Python: s.upper()
Upper(s) ==
    IF Len(s) = 0 THEN s
    ELSE UpperChar(SubSeq(s, 1, 1)) \o Upper(SubSeq(s, 2, Len(s)))

\* Python: f.readline() on a text file holding s
FirstLine(s) ==
    LET nl == {i \in 1..Len(s) : SubSeq(s, i, i) = "\n"}
    IN  IF nl = {} THEN s ELSE SubSeq(s, 1, Min(nl))

\* The line separators of the hosts: POSIX and Windows.
LineSeps == {"\n", "\r\n"}

\* The positions of the character c in s.
Positions(s, c) == {i \in 1..Len(s) : SubSeq(s, i, i) = c}

RECURSIVE TextWrite(_, _)
\* What f.write(s) leaves in a file opened with open(path, 'w'): text mode
\* with the default newline, every "\n" is written as os.linesep.
TextWrite(s, linesep) ==
    IF Positions(s, "\n") = {} THEN s
    ELSE LET i == Min(Positions(s, "\n")) IN
         SubSeq(s, 1, i - 1) \o linesep
             \o TextWrite(SubSeq(s, i + 1, Len(s)), linesep)

RECURSIVE TextRead(_)
\* What f.read() returns for a file opened with open(path, 'r'): text mode
\* with the default newline, "\r\n" and "\r" are both read as "\n".
TextRead(s) ==
    IF Positions(s, "\r") = {} THEN s
    ELSE LET i == Min(Positions(s, "\r"))
             next == IF i < Len(s) /\ SubSeq(s, i + 1, i + 1) = "\n"
                     THEN i + 2 ELSE i + 1
         IN  SubSeq(s, 1, i - 1) \o "\n" \o TextRead(SubSeq(s, next, Len(s)))

\* Python: os.path.join(temp_dir, f"{name}.{ext}")
PathOf(name, ext) == temp_dir \o "/" \o name \o "." \o ext

(***************************************************************************)
(* The geometry kernel                                                     *)
(***************************************************************************)
\* cq.Workplane("XY").box(w, l, h) / .box(w, l, h, centered=False)
EngineBox(w, l, h, centered) ==
    "box(" \o ToString(w) \o "," \o ToString(l) \o "," \o ToString(h)
           \o (IF centered THEN "" ELSE ",centered=False") \o ")"

\* cq.Workplane("XY").cylinder(height, radius)
EngineCylinder(height, radius) ==
    "cylinder(" \o ToString(height) \o "," \o ToString(radius) \o ")"

\* exporters.export(shape, path): the mesh text the kernel writes
EngineStl(shape) == "solid " \o shape \o "\nendsolid\n"

\* exporters.export(shape, path, ExportTypes.STEP, ...): a well-formed file
EngineStep(shape) == "ISO-10303-21;\nHEADER;\n" \o shape \o "\nEND-ISO-10303-21;\n"

(***************************************************************************)
(* Workspaces                                                              *)
(***************************************************************************)
\* The dict literal of lines 36-47 and 87-97.
EmptyWorkspace ==
    [objects |-> <<>>,
     assembly |-> IF CADQUERY_AVAILABLE THEN "cq.Assembly()" ELSE None,
     current_object |-> None]

\* Mutant: the helper answers with the workspace of the import, whichever
\* workspace is active.
get_default_workspace == workspaces["default"]

get_current_workspace == workspaces[current_workspace_id]

ObjectCount(w) == Cardinality(DOMAIN workspaces[w].objects)

TotalObjects ==
    LET RECURSIVE Sum(_)
        Sum(S) == IF S = {} THEN 0
                  ELSE LET w == CHOOSE x \in S : TRUE
                       IN  ObjectCount(w) + Sum(S \ {w})
    IN  Sum(DOMAIN workspaces)

\* Mutant: the count is taken over every workspace, not the active one.
DefaultNameTotal(prefix) == prefix \o "_" \o ToString(TotalObjects)

\* name = f'{prefix}_{len(workspace["objects"])}'
DefaultName(prefix) ==
    prefix \o "_" \o ToString(Cardinality(DOMAIN get_current_workspace.objects))

ResolveName(name, prefix) == IF name = None THEN DefaultName(prefix) ELSE name

\* Mutant: the store replaces the whole mapping by the one new entry.
StoreObjectAlone(wss, name, record) ==
    [wss EXCEPT ![current_workspace_id].objects = (name :> record)]

\* Mutant: an existing entry is kept (setdefault instead of assignment).
StoreObjectIfAbsent(wss, name, record) ==
    [wss EXCEPT ![current_workspace_id].objects = @ @@ (name :> record)]

\* Mutant: a dependency graph; storing under a name drops the boolean results
\* derived from the object that held the name.
StoreObjectCascading(wss, name, record) ==
    LET old == wss[current_workspace_id].objects
        kept == {k \in DOMAIN old :
                    ~(/\ old[k].type = "boolean"
                      /\ k # name
                      /\ name \in {old[k].target, old[k].tool})}
    IN  [wss EXCEPT ![current_workspace_id].objects =
            (name :> record) @@ [k \in kept |-> old[k]]]

\* workspace["objects"][name] = record
StoreObject(wss, name, record) ==
    [wss EXCEPT ![current_workspace_id].objects = (name :> record) @@ @]

\* workspace["current_object"] = name
SetCurrent(wss, name) ==
    [wss EXCEPT ![current_workspace_id].current_object = name]

\* Mutant: the current-object pointer is set but the object is not stored.
RegisterPointerOnly(name, record) == SetCurrent(workspaces, name)

\* The two statements every creating tool runs, in this order.
Register(name, record) == SetCurrent(StoreObject(workspaces, name, record), name)

\* Mutant: the file is created but nothing is written to it.
WriteFileTruncated(fs, path, content) == (path :> "") @@ fs

\* Mutant: the file is opened for appending.
WriteFileAppending(fs, path, content) ==
    (path :> (IF path \in DOMAIN fs THEN fs[path] \o content ELSE content)) @@ fs

\* with open(path, 'w') as f: f.write(content)   /   exporters.export(.., path)
WriteFile(fs, path, content) == (path :> content) @@ fs

\* A tool call that raises: the exception leaves the tool.
Raised(op, args, what) ==
    [op |-> op, args |-> args, outcome |-> "raised", result |-> [exception |-> what]]

\* A tool call that returns `result`.
Returned(op, args, result) ==
    [op |-> op, args |-> args, outcome |-> "returned", result |-> result]

\* Room for one more object / one more file under the model's bounds.
RoomForObject(name, limit) ==
    \/ name \in DOMAIN get_current_workspace.objects
    \/ TotalObjects < limit

RoomForFile(path, limit) ==
    \/ path \in DOMAIN files
    \/ Cardinality(DOMAIN files) < limit

\* A creating tool may run under the bounds: its object and its preview fit.
Room(name_arg, prefix, limit) ==
    /\ RoomForObject(ResolveName(name_arg, prefix), limit)
    /\ RoomForFile(PathOf(ResolveName(name_arg, prefix), "stl"), limit)

\* self.script_file, in the bridge's own scratch directory (lines 24, 199).
script_file == "/tmp/cadquery_mcp_bridge/current_script.py"

\* The script the bridge's constructor writes (cq_editor_bridge.py:33-34).
InitialScript ==
    "import cadquery as cq\n\n# Initial empty script\nresult = cq.Workplane('XY')"

(***************************************************************************)
(* Initial state: module import, lines 15-55                               *)
(***************************************************************************)
\* The state after import on a host with the given line separator.
InitOn(linesep) ==
    /\ os_linesep = linesep
    /\ CADQUERY_AVAILABLE \in BOOLEAN
    /\ current_workspace_id = "default"
    /\ workspaces = ("default" :> EmptyWorkspace)
    /\ files = <<>>
    /\ ret = [op |-> "import", args |-> <<>>, outcome |-> "returned", result |-> <<>>]
    /\ bridge = [cq_editor_process |-> NoProcess]
    /\ processes = <<>>
    /\ os_calls = <<>>
    /\ bridge_files = (script_file :> TextWrite(InitialScript, linesep))
    /\ in_flight = <<>>

\* A POSIX host; the line separator matters to the script file only.
Init == InitOn("\n")

\* Any host.
InitAnyHost == \E linesep \in LineSeps : InitOn(linesep)

(***************************************************************************)
(* Workspace tools                                                         *)
(***************************************************************************)
\* Mutant: the existence test always answers "new".
WorkspaceExistsNever(name) == FALSE

\* if name in workspaces
WorkspaceExists(name) == name \in DOMAIN workspaces

create_workspace(name) ==
    LET args == [name |-> name] IN
    /\ IF WorkspaceExists(name)
       THEN /\ ret' = Returned("create_workspace", args,
                        [status |-> "error",
                         message |-> "Workspace '" \o name \o "' already exists"])
            /\ UNCHANGED <<workspaces, current_workspace_id>>
       ELSE /\ workspaces' = (name :> EmptyWorkspace) @@ workspaces
            /\ current_workspace_id' = name
            /\ ret' = Returned("create_workspace", args,
                        [status |-> "success",
                         message |-> "Created workspace: " \o name,
                         workspace_id |-> name])
    /\ UNCHANGED <<CADQUERY_AVAILABLE, files>>
    /\ UNCHANGED <<editor_vars, in_flight>>

\* Mutant: the membership test is dropped.
SwitchGuardNever(name) == FALSE

\* Mutant: the membership test is inverted.
SwitchGuardInverted(name) == name \in DOMAIN workspaces

\* if name not in workspaces
SwitchGuard(name) == name \notin DOMAIN workspaces

switch_workspace(name) ==
    LET args == [name |-> name] IN
    /\ IF SwitchGuard(name)
       THEN /\ ret' = Returned("switch_workspace", args,
                        [status |-> "error",
                         message |-> "Workspace '" \o name \o "' does not exist"])
            /\ UNCHANGED current_workspace_id
       ELSE /\ current_workspace_id' = name
            /\ ret' = Returned("switch_workspace", args,
                        [status |-> "success",
                         message |-> "Switched to workspace: " \o name,
                         workspace_id |-> name])
    /\ UNCHANGED <<CADQUERY_AVAILABLE, workspaces, files>>
    /\ UNCHANGED <<editor_vars, in_flight>>

\* The dict get_workspace_info returns in the current state.
WorkspaceInfo ==
    [workspace_id |-> current_workspace_id,
     object_count |-> Cardinality(DOMAIN get_current_workspace.objects),
     objects |-> DOMAIN get_current_workspace.objects,
     current_object |-> get_current_workspace.current_object,
     temp_directory |-> temp_dir]

get_workspace_info ==
    /\ ret' = Returned("get_workspace_info", <<>>, WorkspaceInfo)
    /\ UNCHANGED <<CADQUERY_AVAILABLE, workspaces, current_workspace_id, files>>
    /\ UNCHANGED <<editor_vars, in_flight>>

(***************************************************************************)
(* Primitives                                                              *)
(***************************************************************************)
BoxRecord(width, length, height, centered) ==
    IF CADQUERY_AVAILABLE
    THEN [type |-> "box", width |-> width, length |-> length, height |-> height,
          centered |-> centered,
          workplane |-> EngineBox(width, length, height, centered)]
    ELSE [type |-> "box", width |-> width, length |-> length, height |-> height,
          centered |-> centered]

BoxResult(name, width, length, height) ==
    [status |-> "success",
     message |-> "Created box: " \o name,
     object_id |-> name,
     dimensions |-> [width |-> width, length |-> length, height |-> height],
     files |-> [stl |-> PathOf(name, "stl")]]

create_box(width, length, height, centered, name_arg, fault) ==
    LET args == [width |-> width, length |-> length, height |-> height,
                 centered |-> centered, name |-> name_arg]
        name == ResolveName(name_arg, "box")
        stl_path == PathOf(name, "stl")
    IN
    /\ IF CADQUERY_AVAILABLE
       THEN CASE fault = "construct" ->
                   \* box.box(...) raises before anything is stored
                   /\ ret' = Raised("create_box", args, "box")
                   /\ UNCHANGED <<workspaces, files>>
              [] fault = "export" ->
                   \* exporters.export raises after the object is stored
                   /\ workspaces' = Register(name, BoxRecord(width, length, height, centered))
                   /\ ret' = Raised("create_box", args, "export")
                   /\ UNCHANGED files
              [] OTHER ->
                   /\ workspaces' = Register(name, BoxRecord(width, length, height, centered))
                   /\ files' = WriteFile(files, stl_path,
                                  EngineStl(EngineBox(width, length, height, centered)))
                   /\ ret' = Returned("create_box", args, BoxResult(name, width, length, height))
       ELSE /\ fault = "none"
            /\ workspaces' = Register(name, BoxRecord(width, length, height, centered))
            /\ files' = WriteFile(files, stl_path, "Mock STL file content")
            /\ ret' = Returned("create_box", args, BoxResult(name, width, length, height))
    /\ UNCHANGED <<CADQUERY_AVAILABLE, current_workspace_id>>
    /\ UNCHANGED <<editor_vars, in_flight>>

CylinderRecord(radius, height, centered) ==
    IF CADQUERY_AVAILABLE
    THEN [type |-> "cylinder", radius |-> radius, height |-> height,
          centered |-> centered, workplane |-> EngineCylinder(height, radius)]
    ELSE [type |-> "cylinder", radius |-> radius, height |-> height,
          centered |-> centered]

CylinderResult(name, radius, height) ==
    [status |-> "success",
     message |-> "Created cylinder: " \o name,
     object_id |-> name,
     dimensions |-> [radius |-> radius, height |-> height],
     files |-> [stl |-> PathOf(name, "stl")]]

create_cylinder(radius, height, centered, name_arg, fault) ==
    LET args == [radius |-> radius, height |-> height, centered |-> centered,
                 name |-> name_arg]
        name == ResolveName(name_arg, "cylinder")
        stl_path == PathOf(name, "stl")
    IN
    /\ IF CADQUERY_AVAILABLE
       THEN CASE fault = "construct" ->
                   /\ ret' = Raised("create_cylinder", args, "cylinder")
                   /\ UNCHANGED <<workspaces, files>>
              [] fault = "export" ->
                   /\ workspaces' = Register(name, CylinderRecord(radius, height, centered))
                   /\ ret' = Raised("create_cylinder", args, "export")
                   /\ UNCHANGED files
              [] OTHER ->
                   /\ workspaces' = Register(name, CylinderRecord(radius, height, centered))
                   /\ files' = WriteFile(files, stl_path,
                                  EngineStl(EngineCylinder(height, radius)))
                   /\ ret' = Returned("create_cylinder", args,
                                      CylinderResult(name, radius, height))
       ELSE /\ fault = "none"
            /\ workspaces' = Register(name, CylinderRecord(radius, height, centered))
            /\ files' = WriteFile(files, stl_path, "Mock STL file content")
            /\ ret' = Returned("create_cylinder", args,
                               CylinderResult(name, radius, height))
    /\ UNCHANGED <<CADQUERY_AVAILABLE, current_workspace_id>>
    /\ UNCHANGED <<editor_vars, in_flight>>

(***************************************************************************)
(* boolean_operation                                                       *)
(***************************************************************************)
\* A script may bind `result` to a value that is no shape (see ScriptRun).
NonShape == "5"
IsShape(g) == g # NonShape

\* target_obj.union(tool_obj) / .cut(tool_obj) / .intersect(tool_obj)
EngineBoolean(operation, target_obj, tool_obj) ==
    (CASE operation = "union" -> "union"
       [] operation = "subtract" -> "cut"
       [] operation = "intersect" -> "intersect")
    \o "(" \o target_obj \o "," \o tool_obj \o ")"

KnownOperation(operation) == operation \in {"union", "subtract", "intersect"}

\* Mutant: the operand names are stored the wrong way round.
BooleanRecordSwapped(operation, target, tool) ==
    IF CADQUERY_AVAILABLE
    THEN [type |-> "boolean", operation |-> operation, target |-> tool,
          tool |-> target,
          workplane |-> EngineBoolean(operation,
                            get_current_workspace.objects[target].workplane,
                            get_current_workspace.objects[tool].workplane)]
    ELSE [type |-> "boolean", operation |-> operation, target |-> tool,
          tool |-> target]

BooleanRecord(operation, target, tool) ==
    IF CADQUERY_AVAILABLE
    THEN [type |-> "boolean", operation |-> operation, target |-> target,
          tool |-> tool,
          workplane |-> EngineBoolean(operation,
                            get_current_workspace.objects[target].workplane,
                            get_current_workspace.objects[tool].workplane)]
    ELSE [type |-> "boolean", operation |-> operation, target |-> target,
          tool |-> tool]

BooleanResult(operation, target, tool, name) ==
    [status |-> "success",
     message |-> "Created " \o operation \o " between " \o target \o " and " \o tool,
     object_id |-> name,
     files |-> [stl |-> PathOf(name, "stl")]]

boolean_operation(operation, target, tool, name_arg, fault) ==
    LET args == [operation |-> operation, target |-> target, tool |-> tool,
                 name |-> name_arg]
        objects == get_current_workspace.objects
        name == ResolveName(name_arg, "boolean")
        stl_path == PathOf(name, "stl")
    IN
    /\ CASE target \notin DOMAIN objects ->
              /\ fault = "none"
              /\ ret' = Returned("boolean_operation", args,
                          [status |-> "error",
                           message |-> "Target object '" \o target \o "' not found"])
              /\ UNCHANGED <<workspaces, files>>
         [] target \in DOMAIN objects /\ tool \notin DOMAIN objects ->
              /\ fault = "none"
              /\ ret' = Returned("boolean_operation", args,
                          [status |-> "error",
                           message |-> "Tool object '" \o tool \o "' not found"])
              /\ UNCHANGED <<workspaces, files>>
         [] OTHER ->
              IF CADQUERY_AVAILABLE
              THEN CASE ~KnownOperation(operation) ->
                          /\ fault = "none"
                          /\ ret' = Returned("boolean_operation", args,
                                      [status |-> "error",
                                       message |-> "Unknown boolean operation: "
                                                   \o operation])
                          /\ UNCHANGED <<workspaces, files>>
                     [] KnownOperation(operation)
                        /\ (\/ fault = "construct"
                            \/ ~IsShape(objects[target].workplane)
                            \/ ~IsShape(objects[tool].workplane)) ->
                          \* the kernel's boolean raises: nothing is stored
                          /\ fault # "export"
                          /\ ret' = Raised("boolean_operation", args, operation)
                          /\ UNCHANGED <<workspaces, files>>
                     [] OTHER ->
                          /\ workspaces' = Register(name,
                                              BooleanRecord(operation, target, tool))
                          /\ IF fault = "export"
                             THEN /\ ret' = Raised("boolean_operation", args, "export")
                                  /\ UNCHANGED files
                             ELSE /\ files' = WriteFile(files, stl_path,
                                        EngineStl(BooleanRecord(operation, target,
                                                                tool).workplane))
                                  /\ ret' = Returned("boolean_operation", args,
                                        BooleanResult(operation, target, tool, name))
              ELSE /\ fault = "none"
                   /\ workspaces' = Register(name, BooleanRecord(operation, target, tool))
                   /\ files' = WriteFile(files, stl_path,
                         "Mock STL file for " \o operation \o " of " \o target
                         \o " and " \o tool)
                   /\ ret' = Returned("boolean_operation", args,
                                      BooleanResult(operation, target, tool, name))
    /\ UNCHANGED <<CADQUERY_AVAILABLE, current_workspace_id>>
    /\ UNCHANGED <<editor_vars, in_flight>>

(***************************************************************************)
(* execute_cq_script                                                       *)
(***************************************************************************)
ScriptShape == "result = cq.Workplane('XY').sphere(1)"
ScriptNonShape == "result = 5"
ScriptNoResult == "x = 1"
ScriptRaises == "raise ValueError('boom')"
Scripts == {ScriptShape, ScriptNonShape, ScriptNoResult, ScriptRaises}

\* exec(script, {}, local_scope) on the scripts above: what it raises, and
\* what local_scope["result"] is afterwards.
ScriptRun(script) ==
    CASE script = ScriptShape -> [raises |-> None, bound |-> TRUE, result |-> "sphere(1)"]
      [] script = ScriptNonShape -> [raises |-> None, bound |-> TRUE, result |-> NonShape]
      [] script = ScriptNoResult -> [raises |-> None, bound |-> FALSE, result |-> None]
      [] script = ScriptRaises -> [raises |-> "boom", bound |-> FALSE, result |-> None]

ScriptRecord(script) ==
    IF CADQUERY_AVAILABLE
    THEN [type |-> "script", script |-> script, workplane |-> ScriptRun(script).result]
    ELSE [type |-> "script", script |-> script]

execute_cq_script(script, name_arg, fault) ==
    LET args == [script |-> script, name |-> name_arg]
        name == ResolveName(name_arg, "script")
        stl_path == PathOf(name, "stl")
        run == ScriptRun(script)
    IN
    /\ IF CADQUERY_AVAILABLE
       THEN CASE run.raises # None ->
                   /\ fault = "none"
                   /\ ret' = Returned("execute_cq_script", args,
                               [status |-> "error",
                                message |-> "Error executing script: " \o run.raises])
                   /\ UNCHANGED <<workspaces, files>>
              [] run.raises = None /\ fault = "construct" ->
                   \* a kernel call inside the script raises
                   /\ run.bound
                   /\ ret' = Returned("execute_cq_script", args,
                               [status |-> "error",
                                message |-> "Error executing script: kernel"])
                   /\ UNCHANGED <<workspaces, files>>
              [] run.raises = None /\ fault # "construct" /\ ~run.bound ->
                   /\ fault = "none"
                   /\ ret' = Returned("execute_cq_script", args,
                               [status |-> "error",
                                message |-> "Script must define a 'result' variable containing the CadQuery object"])
                   /\ UNCHANGED <<workspaces, files>>
              [] OTHER ->
                   \* the object is stored, then the preview is exported
                   /\ workspaces' = Register(name, ScriptRecord(script))
                   /\ IF fault = "export" \/ ~IsShape(run.result)
                      THEN /\ (fault = "export" => IsShape(run.result))
                           /\ ret' = Returned("execute_cq_script", args,
                                       [status |-> "error",
                                        message |-> "Error executing script: export"])
                           /\ UNCHANGED files
                      ELSE /\ files' = WriteFile(files, stl_path, EngineStl(run.result))
                           /\ ret' = Returned("execute_cq_script", args,
                                       [status |-> "success",
                                        message |-> "Created object from script: " \o name,
                                        object_id |-> name,
                                        files |-> [stl |-> stl_path]])
       ELSE /\ fault = "none"
            /\ workspaces' = Register(name, ScriptRecord(script))
            /\ files' = WriteFile(files, stl_path, "Mock STL file content from script")
            /\ ret' = Returned("execute_cq_script", args,
                        [status |-> "success",
                         message |-> "Created object from script (mock): " \o name,
                         object_id |-> name,
                         files |-> [stl |-> stl_path]])
    /\ UNCHANGED <<CADQUERY_AVAILABLE, current_workspace_id>>
    /\ UNCHANGED <<editor_vars, in_flight>>

(***************************************************************************)
(* render_current_object                                                   *)
(***************************************************************************)
\* Mutant: the object rendered is the current object of the default
\* workspace, whichever workspace is active.
obj_name_default == workspaces["default"].current_object

\* obj_name = workspace["current_object"], line 376
obj_name == get_current_workspace.current_object

RenderResult(name, mock) ==
    [status |-> "success",
     message |-> "Rendered " \o name \o (IF mock THEN " (mock)" ELSE ""),
     object_id |-> name,
     files |-> [png |-> PathOf(name, "png")]]

\* The tool of lines 362-420.  Both branches write the same placeholder
\* image; no kernel call is made, so nothing raises inside the try.
render_current_object ==
    /\ IF get_current_workspace.current_object = None
       THEN /\ ret' = Returned("render_current_object", <<>>,
                        [status |-> "error",
                         message |-> "No current object selected"])
            /\ UNCHANGED files
       ELSE /\ files' = WriteFile(files, PathOf(obj_name, "png"), "Mock PNG content")
            /\ ret' = Returned("render_current_object", <<>>,
                               RenderResult(obj_name, ~CADQUERY_AVAILABLE))
    /\ UNCHANGED <<CADQUERY_AVAILABLE, workspaces, current_workspace_id>>
    /\ UNCHANGED <<editor_vars, in_flight>>

(***************************************************************************)
(* export_object                                                           *)
(***************************************************************************)
\* is_step_format = format in ["step", "stp"]
IsStepFormat(format) == format \in {"step", "stp"}

\* The format string after line 440.
NormalizeFormat(format) == Lower(format)

\* The file a STEP export leaves behind, by what the kernel wrote.
StepWritten(fs, path, shape, written) ==
    CASE written = "valid" -> WriteFile(fs, path, EngineStep(shape))
      [] written = "noheader" -> WriteFile(fs, path, "HEADER;\n" \o shape \o "\n")
      [] written = "empty" -> WriteFile(fs, path, "")
      [] written = "missing" -> fs

\* Lines 482-501: None when the artifact passes, else the error message.
ValidateStep(fs, path) ==
    IF path \in DOMAIN fs /\ Len(fs[path]) > 0
    THEN IF FirstLine(fs[path]) = "" \/ ~Contains(FirstLine(fs[path]), "ISO-10303")
         THEN "Exported file does not appear to be a valid STEP file"
         ELSE None
    ELSE "Exported file is empty or wasn't created properly"

ExportResult(name, extension, output_path) ==
    [status |-> "success",
     message |-> "Exported " \o name \o " to " \o extension \o " format",
     object_id |-> name,
     files |-> (extension :> output_path)]

ExportError(message) == [status |-> "error", message |-> message]

export_object(name, format_arg, validate, fault, written) ==
    LET args == [name |-> name, format |-> format_arg, validate |-> validate]
        objects == get_current_workspace.objects
        format == NormalizeFormat(format_arg)
        extension == format
        output_path == PathOf(name, extension)
    IN
    /\ IF name \notin DOMAIN objects
       THEN /\ fault = "none" /\ written = "valid"
            /\ ret' = Returned("export_object", args,
                        ExportError("Object '" \o name \o "' not found"))
            /\ UNCHANGED files
       ELSE IF CADQUERY_AVAILABLE
       THEN LET workplane == objects[name].workplane IN
            CASE format = "stl" ->
                   /\ written = "valid"
                   /\ fault # "construct"
                   /\ IF fault = "export" \/ ~IsShape(workplane)
                      THEN /\ (fault = "export" => IsShape(workplane))
                           /\ ret' = Returned("export_object", args,
                                       ExportError("Export failed: export"))
                           /\ UNCHANGED files
                      ELSE /\ files' = WriteFile(files, output_path, EngineStl(workplane))
                           /\ ret' = Returned("export_object", args,
                                       ExportResult(name, extension, output_path))
              [] IsStepFormat(format) ->
                   IF fault # "none" \/ ~IsShape(workplane)
                   THEN \* findSolid() or exporters.export raises; caught at 507
                        /\ written = "valid"
                        /\ (fault # "none" => IsShape(workplane))
                        /\ ret' = Returned("export_object", args,
                                    ExportError("Export failed: " \o
                                        (IF fault = "construct" THEN "findSolid"
                                                                ELSE "export")))
                        /\ UNCHANGED files
                   ELSE /\ files' = StepWritten(files, output_path, workplane, written)
                        /\ ret' = Returned("export_object", args,
                                    IF validate /\ ValidateStep(files', output_path) # None
                                    THEN ExportError(ValidateStep(files', output_path))
                                    ELSE ExportResult(name, extension, output_path))
              [] OTHER ->
                   /\ fault = "none" /\ written = "valid"
                   /\ ret' = Returned("export_object", args,
                               ExportError("Unsupported export format: " \o format
                                   \o ". Supported formats: stl, step, stp"))
                   /\ UNCHANGED files
       ELSE /\ fault = "none" /\ written = "valid"
            /\ files' = WriteFile(files, output_path,
                   IF IsStepFormat(format)
                   THEN "Mock STEP file content for " \o name
                   ELSE "Mock " \o Upper(format) \o " file content for " \o name)
            /\ ret' = Returned("export_object", args,
                               ExportResult(name, extension, output_path))
    /\ UNCHANGED <<CADQUERY_AVAILABLE, workspaces, current_workspace_id>>
    /\ UNCHANGED <<editor_vars, in_flight>>

(***************************************************************************)
(* export_step                                                             *)
(***************************************************************************)
\* Where a kernel call raises during one export_step: in findSolid(), in the
\* STEP export, or in the STL export that follows it.
StepFaults == {"none", "construct", "export", "preview"}

\* The filepath arguments: none, empty, no step suffix, step-family suffixes.
FilePaths == {None, "", "out", "/x/m.STP", "/x/n.Step"}

\* Mutant: an explicit path is used as given, whatever its suffix.
StepPathAsGiven(name, filepath) ==
    IF filepath # None /\ filepath # "" THEN filepath ELSE PathOf(name, "step")

\* Lines 547-553: the path the STEP artifact is written to.
StepPath(name, filepath) ==
    IF filepath # None /\ filepath # ""
    THEN IF EndsWith(Lower(filepath), ".step") \/ EndsWith(Lower(filepath), ".stp")
         THEN filepath
         ELSE filepath \o ".step"
    ELSE PathOf(name, "step")

StepResult(name, output_path, stl_path) ==
    [status |-> "success",
     message |-> "Exported " \o name \o " as STEP file",
     object_id |-> name,
     files |-> [step |-> output_path, stl |-> stl_path]]

export_step(name, filepath, fault) ==
    LET args == [name |-> name, filepath |-> filepath]
        objects == get_current_workspace.objects
        output_path == StepPath(name, filepath)
        stl_path == PathOf(name, "stl")
    IN
    /\ IF name \notin DOMAIN objects
       THEN /\ fault = "none"
            /\ ret' = Returned("export_step", args,
                        ExportError("Object '" \o name \o "' not found"))
            /\ UNCHANGED files
       ELSE IF CADQUERY_AVAILABLE
       THEN LET workplane == objects[name].workplane IN
            CASE fault \in {"construct", "export"} \/ ~IsShape(workplane) ->
                   \* findSolid() or the STEP export raises; caught at 585
                   /\ (fault # "none" => IsShape(workplane))
                   /\ fault # "preview"
                   /\ ret' = Returned("export_step", args,
                               ExportError("STEP export failed: " \o
                                   (IF fault = "construct" THEN "findSolid"
                                                           ELSE "export")))
                   /\ UNCHANGED files
              [] fault = "preview" /\ IsShape(workplane) ->
                   \* the STEP file is written, then the STL export raises
                   /\ files' = WriteFile(files, output_path, EngineStep(workplane))
                   /\ ret' = Returned("export_step", args,
                               ExportError("STEP export failed: preview"))
              [] OTHER ->
                   /\ files' = WriteFile(
                                  WriteFile(files, output_path, EngineStep(workplane)),
                                  stl_path, EngineStl(workplane))
                   /\ ret' = Returned("export_step", args,
                               StepResult(name, output_path, stl_path))
       ELSE /\ fault = "none"
            /\ files' = WriteFile(
                           WriteFile(files, output_path,
                                     "Mock STEP file content for " \o name),
                           stl_path, "Mock STL file content for " \o name)
            /\ ret' = Returned("export_step", args,
                               StepResult(name, output_path, stl_path))
    /\ UNCHANGED <<CADQUERY_AVAILABLE, workspaces, current_workspace_id>>
    /\ UNCHANGED <<editor_vars, in_flight>>

(***************************************************************************)
(* The editor bridge: cq_editor_bridge.py                                  *)
(***************************************************************************)
\* potential_paths, lines 48-53, with sys.exec_prefix written as "env".
potential_paths ==
    <<"cq-editor", "env/Scripts/cq-editor.exe", "env/python.exe",
      "C:/Users/Senthil/miniconda3/envs/cadquery/python.exe">>

\* What becomes of one candidate: Popen raises, the process has exited when
\* the two seconds are over, or it is still alive then.
LaunchOutcomes == {"raises", "exits", "alive"}

\* What terminate() and wait(timeout=5) do to a running process: it exits in
\* time, wait times out, or terminate itself raises.
GracefulOutcomes == {"exits", "timeout", "raises"}

\* What kill() does: the process is gone, or kill raises and it runs on.
KillOutcomes == {"dies", "raises"}

\* The argv of lines 60-73.
PopenCall(path) ==
    IF EndsWith(path, "python.exe")
    THEN <<"Popen", path, "-m", "cq_editor">>
    ELSE <<"Popen", path, script_file>>

\* Mutant: the already-running test is dropped.
EditorRunningNever(b, procs) == FALSE

\* self.cq_editor_process and self.cq_editor_process.poll() is None
EditorRunning(b, procs) ==
    /\ b.cq_editor_process # NoProcess
    /\ procs[b.cq_editor_process] = "running"

RECURSIVE TryPaths(_, _, _, _, _)
\* The loop of lines 56-94 from candidate i on: the value returned, the
\* processes, the tracked process and the calls made when it ends.
TryPaths(i, procs, tracked, calls, outcomes) ==
    IF i > Len(potential_paths)
    THEN [value |-> FALSE, processes |-> procs, cq_editor_process |-> tracked,
          os_calls |-> calls]
    ELSE LET called == Append(calls, PopenCall(potential_paths[i])) IN
         CASE outcomes[i] = "raises" ->
                TryPaths(i + 1, procs, tracked, called, outcomes)
           [] outcomes[i] = "exits" ->
                TryPaths(i + 1, Append(procs, "exited"), Len(procs) + 1, called,
                         outcomes)
           [] outcomes[i] = "alive" ->
                [value |-> TRUE, processes |-> Append(procs, "running"),
                 cq_editor_process |-> Len(procs) + 1, os_calls |-> called]

\* CQEditorBridge.start_cq_editor: value, processes, tracked process, calls.
start_cq_editor(outcomes) ==
    IF EditorRunning(bridge, processes)
    THEN [value |-> TRUE, processes |-> processes,
          cq_editor_process |-> bridge.cq_editor_process, os_calls |-> <<>>]
    ELSE TryPaths(1, processes, bridge.cq_editor_process, <<>>, outcomes)

\* The tool of lines 238-252.
launch_cq_editor(outcomes) ==
    LET started == start_cq_editor(outcomes) IN
    /\ processes' = started.processes
    /\ bridge' = [bridge EXCEPT !.cq_editor_process = started.cq_editor_process]
    /\ os_calls' = started.os_calls
    /\ ret' = Returned("launch_cq_editor", <<>>,
                IF started.value
                THEN [status |-> "success",
                      message |-> "CadQuery Editor launched successfully"]
                ELSE [status |-> "error",
                      message |-> "Failed to launch CadQuery Editor"])
    /\ UNCHANGED <<CADQUERY_AVAILABLE, workspaces, current_workspace_id, files,
                   bridge_files, os_linesep, in_flight>>

\* Mutant: wait() returns in time although the process has not exited.
AfterGracefulRunning(status) == status

\* The process after terminate() and a wait() that returned in time.
AfterGraceful(status) == "exited"

\* CQEditorBridge.stop_cq_editor: value, processes, calls.
stop_cq_editor(graceful, kill) ==
    LET p == bridge.cq_editor_process IN
    IF p = NoProcess
    THEN [value |-> TRUE, processes |-> processes, os_calls |-> <<>>]
    ELSE IF processes[p] = "exited" \/ graceful = "exits"
    THEN [value |-> TRUE,
          processes |-> [processes EXCEPT ![p] = AfterGraceful(@)],
          os_calls |-> << <<"terminate">>, <<"wait">> >>]
    ELSE [value |-> FALSE,
          processes |-> [processes EXCEPT
                            ![p] = IF kill = "dies" THEN "exited" ELSE @],
          os_calls |-> IF graceful = "timeout"
                       THEN << <<"terminate">>, <<"wait">>, <<"kill">> >>
                       ELSE << <<"terminate">>, <<"kill">> >>]

\* The tool of lines 254-268.
close_cq_editor(graceful, kill) ==
    LET stopped == stop_cq_editor(graceful, kill) IN
    \* inputs that the call does not reach are fixed
    /\ (\/ bridge.cq_editor_process = NoProcess
        \/ processes[bridge.cq_editor_process] = "exited") => graceful = "exits"
    /\ stopped.value => kill = "dies"
    /\ processes' = stopped.processes
    /\ os_calls' = stopped.os_calls
    /\ ret' = Returned("close_cq_editor", <<>>,
                IF stopped.value
                THEN [status |-> "success",
                      message |-> "CadQuery Editor closed successfully"]
                ELSE [status |-> "error",
                      message |-> "Failed to close CadQuery Editor"])
    /\ UNCHANGED <<CADQUERY_AVAILABLE, workspaces, current_workspace_id, files,
                   bridge, bridge_files, os_linesep, in_flight>>

\* The editor process ends by itself (the user closes its window); the
\* bridge learns of it at its next poll().
editor_exits(p) ==
    /\ processes[p] = "running"
    /\ processes' = [processes EXCEPT ![p] = "exited"]
    /\ UNCHANGED <<CADQUERY_AVAILABLE, workspaces, current_workspace_id, files,
                   ret, bridge, os_calls, bridge_files, os_linesep, in_flight>>

\* What becomes of open(self.script_file, 'w') and f.write(script_content):
\* the text is written, open raises (the file is as it was), or the write
\* raises after open has truncated the file.
WriteOutcomes == {"written", "open", "write"}

\* CQEditorBridge.update_script: the value returned and the directory after.
update_script(script_content, outcome) ==
    CASE outcome = "written" ->
            [value |-> TRUE,
             files |-> WriteFile(bridge_files, script_file,
                                 TextWrite(script_content, os_linesep))]
      [] outcome = "open" ->
            [value |-> FALSE, files |-> bridge_files]
      [] outcome = "write" ->
            [value |-> FALSE, files |-> WriteFile(bridge_files, script_file, "")]

\* The tool of lines 270-289.
update_cq_script(script, outcome) ==
    LET updated == update_script(script, outcome) IN
    /\ bridge_files' = updated.files
    /\ ret' = Returned("update_cq_script", [script |-> script],
                IF updated.value
                THEN [status |-> "success",
                      message |-> "Script updated in CadQuery Editor",
                      script_file |-> script_file]
                ELSE [status |-> "error",
                      message |-> "Failed to update script in CadQuery Editor"])
    /\ UNCHANGED <<CADQUERY_AVAILABLE, workspaces, current_workspace_id, files,
                   bridge, processes, os_calls, os_linesep, in_flight>>

\* Whether reading the script file raises during one sync.
ReadFaults == {"none", "read"}

\* Mutant: the sync registers a synced-result object under the id it reports.
SyncedWorkspacesRegistered(name) == Register(name, [type |-> "synced"])

\* The workspace table after the try block of lines 311-328, which reads
\* the script and assigns nothing.
SyncedWorkspaces(name) == workspaces

\* The tool of lines 291-333; bridge.get_workspace is get_current_workspace
\* (cadquery_fastmcp.py:55), so the test of line 300 never holds.
sync_object_from_editor(name_arg, fault) ==
    LET name == ResolveName(name_arg, "synced") IN
    /\ workspaces' = SyncedWorkspaces(name)
    /\ ret' = Returned("sync_object_from_editor", [name |-> name_arg],
                IF fault = "read"
                THEN [status |-> "error",
                      message |-> "Error syncing from CQ-Editor: read"]
                ELSE [status |-> "success",
                      message |-> "Synced object from CQ-Editor: " \o name,
                      object_id |-> name,
                      script |-> TextRead(bridge_files[script_file])])
    /\ UNCHANGED <<CADQUERY_AVAILABLE, current_workspace_id, files>>
    /\ UNCHANGED <<editor_vars, in_flight>>

(***************************************************************************)
(* Tool calls under the bounds, over given input sets                      *)
(***************************************************************************)
\* Every object name in use in some workspace, and one in use in none.
AbsentName == "nosuch"
ObjectNameArgs ==
    UNION {DOMAIN workspaces[w].objects : w \in DOMAIN workspaces} \cup {AbsentName}

CreateWorkspace == \E name \in WsNames : create_workspace(name)

SwitchWorkspace == \E name \in WsNames : switch_workspace(name)

GetWorkspaceInfo == get_workspace_info

CreateBox(boxes, names, faults, limit) ==
    \E b \in boxes, n \in names, fault \in faults :
        Room(n, "box", limit) /\ create_box(b[1], b[2], b[3], b[4], n, fault)

CreateCylinder(names, faults, limit) ==
    \E c \in CylinderArgs, n \in names, fault \in faults :
        Room(n, "cylinder", limit) /\ create_cylinder(c[1], c[2], c[3], n, fault)

\* The number of kernel constructions in a shape.
ShapeSize(g) == Cardinality({i \in 1..Len(g) : SubSeq(g, i, i) = "("})

\* The result of combining the two operands stays within MaxShapeSize.
RoomForShape(t, u) ==
    LET objects == get_current_workspace.objects IN
    (CADQUERY_AVAILABLE /\ t \in DOMAIN objects /\ u \in DOMAIN objects) =>
        ShapeSize(objects[t].workplane) + ShapeSize(objects[u].workplane) + 1
            <= MaxShapeSize

BooleanOperation(operations, names, faults, limit) ==
    \E o \in operations, t \in ObjectNameArgs, u \in ObjectNameArgs,
       n \in names, fault \in faults :
        /\ Room(n, "boolean", limit)
        /\ RoomForShape(t, u)
        /\ boolean_operation(o, t, u, n, fault)

ExecuteCqScript(scripts, names, faults, limit) ==
    \E s \in scripts, n \in names, fault \in faults :
        Room(n, "script", limit) /\ execute_cq_script(s, n, fault)

ExportObject(formats, faults, outputs) ==
    \E name \in ObjectNameArgs, f \in formats, v \in BOOLEAN,
       fault \in faults, written \in outputs :
        /\ RoomForFile(PathOf(name, Lower(f)), MaxFiles)
        /\ export_object(name, f, v, fault, written)

\* Room for these files under the model's bound.
RoomForFiles(paths, limit) == Cardinality(DOMAIN files \cup paths) <= limit

ExportStep(filepaths, faults, limit) ==
    \E name \in ObjectNameArgs, fp \in filepaths, fault \in faults :
        /\ RoomForFiles({StepPath(name, fp), PathOf(name, "stl")}, limit)
        /\ export_step(name, fp, fault)

LaunchCqEditor(limit) ==
    \E outcomes \in [1..Len(potential_paths) -> LaunchOutcomes] :
        /\ Len(start_cq_editor(outcomes).processes) <= limit
        /\ launch_cq_editor(outcomes)

CloseCqEditor ==
    \E graceful \in GracefulOutcomes, kill \in KillOutcomes :
        close_cq_editor(graceful, kill)

EditorExits == \E p \in DOMAIN processes : editor_exits(p)

RenderCurrentObject(limit) ==
    /\ get_current_workspace.current_object # None =>
           RoomForFile(PathOf(get_current_workspace.current_object, "png"), limit)
    /\ render_current_object

\* The script texts pushed to the editor: one line, two lines separated by
\* a line feed, two lines separated by carriage return and line feed.
EditorScripts == {"x = 1", "x = 1\ny = 2", "x = 1\r\ny = 2"}

UpdateCqScript(scripts, outcomes) ==
    \E script \in scripts, outcome \in outcomes : update_cq_script(script, outcome)

SyncObjectFromEditor(names, faults) ==
    \E n \in names, fault \in faults : sync_object_from_editor(n, fault)

(***************************************************************************)
(* Specification: every tool, in any order                                 *)
(***************************************************************************)
Next ==
    \/ CreateWorkspace
    \/ SwitchWorkspace
    \/ GetWorkspaceInfo
    \/ CreateBox({<<2, 3, 4, TRUE>>}, NameArgs, {"none", "export"}, MaxObjects)
    \/ CreateCylinder({None}, {"none"}, MaxObjects)
    \/ BooleanOperation({"union", "invalid"}, {None}, {"none"}, MaxObjects)
    \/ ExecuteCqScript({ScriptShape, ScriptNoResult}, {None}, {"none"}, MaxObjects)
    \/ ExportObject({"STEP"}, {"none"}, {"valid", "noheader"})

Spec == Init /\ [][Next]_vars

(***************************************************************************)
(* Specification: create_box over all its inputs, among objects of other   *)
(* kinds                                                                   *)
(***************************************************************************)
NextCreate ==
    \/ CreateWorkspace
    \/ CreateBox(BoxArgs, NameArgs, EngineFaults, MaxCreated)
    \/ CreateCylinder({None}, {"none"}, MaxCreated)
    \/ ExecuteCqScript({ScriptShape}, {None}, {"none"}, MaxCreated)

SpecCreate == Init /\ [][NextCreate]_vars

(***************************************************************************)
(* Specification: the four creating tools and the names they give          *)
(***************************************************************************)
NextNaming ==
    \/ CreateWorkspace
    \/ CreateBox({<<2, 3, 4, TRUE>>}, NameArgs, {"none"}, MaxCreated)
    \/ CreateCylinder({None}, {"none"}, MaxCreated)
    \/ BooleanOperation({"union"}, {None}, {"none"}, MaxCreated)
    \/ ExecuteCqScript({ScriptShape}, {None}, {"none"}, MaxCreated)

SpecNaming == Init /\ [][NextNaming]_vars

(***************************************************************************)
(* Specification: boolean_operation over all its inputs                    *)
(***************************************************************************)
NextBoolean ==
    \/ CreateWorkspace
    \/ SwitchWorkspace
    \/ CreateBox({<<2, 3, 4, TRUE>>}, NameArgs, {"none"}, MaxObjects)
    \/ ExecuteCqScript({ScriptNonShape}, {None}, {"none"}, MaxObjects)
    \/ BooleanOperation(Operations, NameArgs, EngineFaults, MaxObjects)

SpecBoolean == Init /\ [][NextBoolean]_vars

(***************************************************************************)
(* Specification: the operand lookup of boolean_operation and its union    *)
(***************************************************************************)
NextOperands ==
    \/ CreateWorkspace
    \/ SwitchWorkspace
    \/ CreateBox({<<2, 3, 4, TRUE>>}, {None}, {"none"}, MaxObjects)
    \/ ExecuteCqScript({ScriptNonShape}, {None}, {"none"}, MaxObjects)
    \/ BooleanOperation({"union", "invalid"}, NameArgs, EngineFaults, MaxObjects)

SpecOperands == Init /\ [][NextOperands]_vars

(***************************************************************************)
(* Specification: export_object over all its inputs                        *)
(***************************************************************************)
NextExport ==
    \/ CreateWorkspace
    \/ SwitchWorkspace
    \/ CreateBox({<<2, 3, 4, TRUE>>}, NameArgs, {"none"}, MaxObjects)
    \/ ExecuteCqScript({ScriptNonShape}, {None}, {"none"}, MaxObjects)
    \/ ExportObject(Formats, EngineFaults, StepOutputs)

SpecExport == Init /\ [][NextExport]_vars

(***************************************************************************)
(* Specification: the two STEP entry points, export_object and export_step *)
(***************************************************************************)
NextStep ==
    \/ CreateWorkspace
    \/ SwitchWorkspace
    \/ CreateBox({<<2, 3, 4, TRUE>>}, {None}, {"none"}, MaxObjects)
    \/ ExecuteCqScript({ScriptNonShape}, {None}, {"none"}, MaxObjects)
    \/ ExportObject({"step", "STP"}, {"none"}, {"valid"})
    \/ ExportStep(FilePaths, StepFaults, MaxStepFiles)

SpecStep == Init /\ [][NextStep]_vars

(***************************************************************************)
(* Specification: object records under creations, overwrites and the tools *)
(* that only read them                                                     *)
(***************************************************************************)
NextRecords ==
    \/ CreateWorkspace
    \/ SwitchWorkspace
    \/ GetWorkspaceInfo
    \/ CreateBox(BoxArgs, NameArgs, {"none", "export"}, MaxObjects)
    \/ CreateCylinder({None}, {"none"}, MaxObjects)
    \/ ExportObject({"stl"}, {"none"}, {"valid"})
    \/ ExportStep({None}, {"none"}, MaxStepFiles)

SpecRecords == Init /\ [][NextRecords]_vars

(***************************************************************************)
(* Specification: execute_cq_script over all its inputs                    *)
(***************************************************************************)
NextScript ==
    \/ CreateWorkspace
    \/ SwitchWorkspace
    \/ CreateBox({<<2, 3, 4, TRUE>>}, {None}, {"none"}, MaxObjects)
    \/ ExecuteCqScript(Scripts, NameArgs, EngineFaults, MaxObjects)

SpecScript == Init /\ [][NextScript]_vars

(***************************************************************************)
(* Specification: repeated exports of unchanged and of re-created objects  *)
(***************************************************************************)
NextRepeat ==
    \/ CreateWorkspace
    \/ SwitchWorkspace
    \/ CreateBox(BoxArgs, {None}, {"none"}, MaxObjects)
    \/ ExportObject({"stl", "STL", "step"}, {"none", "export"}, {"valid"})

SpecRepeat == Init /\ [][NextRepeat]_vars

(***************************************************************************)
(* Specification: the four creating tools storing under names in use       *)
(***************************************************************************)
NextOverwrite ==
    \/ CreateWorkspace
    \/ CreateBox(BoxArgs, NameArgs, {"none"}, MaxObjects)
    \/ CreateCylinder(ExplicitNames, {"none"}, MaxObjects)
    \/ BooleanOperation({"union"}, ExplicitNames, {"none"}, MaxObjects)
    \/ ExecuteCqScript({ScriptShape}, ExplicitNames, {"none"}, MaxObjects)

SpecOverwrite == Init /\ [][NextOverwrite]_vars

(***************************************************************************)
(* Specification: boolean results and later creations under the names of   *)
(* their operands                                                          *)
(***************************************************************************)
NextDerived ==
    \/ CreateWorkspace
    \/ SwitchWorkspace
    \/ CreateBox(BoxArgs, NameArgs, {"none"}, MaxObjects)
    \/ BooleanOperation({"union"}, NameArgs, {"none"}, MaxObjects)

SpecDerived == Init /\ [][NextDerived]_vars

(***************************************************************************)
(* Specification: two workspaces holding objects under the same names      *)
(***************************************************************************)
NextIsolation ==
    \/ CreateWorkspace
    \/ SwitchWorkspace
    \/ CreateBox(BoxArgs, ExplicitNames, {"none", "export"}, MaxObjects)
    \/ CreateCylinder({None}, {"none"}, MaxObjects)
    \/ BooleanOperation({"union"}, {None}, {"none"}, MaxObjects)
    \/ ExecuteCqScript({ScriptShape}, {None}, {"none"}, MaxObjects)
    \/ ExportObject({"stl"}, {"none"}, {"valid"})
    \/ ExportStep({None}, {"none"}, MaxFiles)

SpecIsolation == Init /\ [][NextIsolation]_vars

(***************************************************************************)
(* Specification: the tools that read the registry, among creations        *)
(***************************************************************************)
NextReaders ==
    \/ CreateWorkspace
    \/ SwitchWorkspace
    \/ CreateBox({<<2, 3, 4, TRUE>>}, {None}, {"none"}, MaxObjects)
    \/ GetWorkspaceInfo
    \/ ExportObject({"stl", "step", "xyz"}, {"none", "export"}, {"valid", "noheader"})
    \/ ExportStep({None}, StepFaults, MaxFiles)
    \/ RenderCurrentObject(MaxFiles)
    \/ UpdateCqScript({ScriptShape}, WriteOutcomes)
    \/ SyncObjectFromEditor(NameArgs, ReadFaults)

SpecReaders == Init /\ [][NextReaders]_vars

(***************************************************************************)
(* Specification: the script file shared with the editor, on any host      *)
(***************************************************************************)
NextScriptFile ==
    \/ CreateBox({<<2, 3, 4, TRUE>>}, {None}, {"none"}, MaxObjects)
    \/ UpdateCqScript(EditorScripts, WriteOutcomes)
    \/ SyncObjectFromEditor(NameArgs, ReadFaults)

SpecScriptFile == InitAnyHost /\ [][NextScriptFile]_vars

(***************************************************************************)
(* Specification: render_current_object in workspaces with and without a   *)
(* current object                                                          *)
(***************************************************************************)
NextRender ==
    \/ CreateWorkspace
    \/ SwitchWorkspace
    \/ CreateBox({<<2, 3, 4, TRUE>>}, NameArgs, {"none", "export"}, MaxObjects)
    \/ CreateCylinder({None}, {"none"}, MaxObjects)
    \/ RenderCurrentObject(MaxStepFiles)

SpecRender == Init /\ [][NextRender]_vars

(***************************************************************************)
(* Specification: the editor process, launched, closed and ending by       *)
(* itself                                                                  *)
(***************************************************************************)
NextEditor ==
    \/ LaunchCqEditor(MaxProcesses)
    \/ CloseCqEditor
    \/ EditorExits

SpecEditor == Init /\ [][NextEditor]_vars

(***************************************************************************)
(* Properties                                                              *)
(***************************************************************************)
\* The tool call of this step was `op` (every tool stamps its own name).
Called(op) == ret'.op = op /\ vars' # vars

\* C1: in every reachable state every workspace's current_object is None or
\* a key of that same workspace's objects mapping.
C1_CurrentObjectRegistered ==
    \A w \in DOMAIN workspaces :
        \/ workspaces[w].current_object = None
        \/ workspaces[w].current_object \in DOMAIN workspaces[w].objects

\* C1 witness: a boolean result has just become the current object of a
\* workspace that holds two objects.
C1_Witness ==
    /\ ret.op = "boolean_operation"
    /\ ret.outcome = "returned"
    /\ ret.result.status = "success"
    /\ get_current_workspace.current_object = ret.result.object_id
    /\ Cardinality(DOMAIN get_current_workspace.objects) = 2

\* C2: the active workspace is always a registered one (initially
\* "default"), and the set of registered workspace names only grows.
C2_ActiveWorkspaceRegistered ==
    /\ current_workspace_id = "default"
    /\ [](current_workspace_id \in DOMAIN workspaces)
    /\ [][DOMAIN workspaces \subseteq DOMAIN workspaces']_vars

\* C2 witness: two workspaces are registered and the active one has been
\* switched back to "default" from the later one.
C2_Witness ==
    /\ DOMAIN workspaces = {"default", "w1"}
    /\ ret.op = "switch_workspace"
    /\ ret.result.status = "success"
    /\ current_workspace_id = "default"

\* C3: create_workspace(name) on a registered name returns an error and
\* leaves the registry and the active workspace unchanged; on a new name it
\* registers an empty workspace, makes it active, and get_workspace_info then
\* reports workspace_id = name, object_count = 0, no names, no current object.
C3_CreateWorkspace ==
    [][Called("create_workspace") =>
        LET name == ret'.args.name IN
        IF name \in DOMAIN workspaces
        THEN /\ ret'.outcome = "returned"
             /\ ret'.result.status = "error"
             /\ ret'.result.message = "Workspace '" \o name \o "' already exists"
             /\ workspaces' = workspaces
             /\ current_workspace_id' = current_workspace_id
        ELSE /\ ret'.outcome = "returned"
             /\ ret'.result.status = "success"
             /\ DOMAIN workspaces' = DOMAIN workspaces \cup {name}
             /\ \A w \in DOMAIN workspaces : workspaces'[w] = workspaces[w]
             /\ current_workspace_id' = name
             /\ WorkspaceInfo'.workspace_id = name
             /\ WorkspaceInfo'.object_count = 0
             /\ WorkspaceInfo'.objects = {}
             /\ WorkspaceInfo'.current_object = None
    ]_vars

\* C3 witness: "w1" has just been created and is active while "default"
\* holds an object.
C3_Witness ==
    /\ ret.op = "create_workspace"
    /\ ret.result.status = "success"
    /\ current_workspace_id = "w1"
    /\ workspaces["default"].objects # <<>>
    /\ workspaces["w1"].objects = <<>>

\* C4: switch_workspace(name) on an unregistered name returns an error and
\* changes neither the active workspace nor any workspace; on a registered
\* name it makes that workspace active and changes nothing else.
C4_SwitchWorkspace ==
    [][Called("switch_workspace") =>
        LET name == ret'.args.name IN
        /\ ret'.outcome = "returned"
        /\ workspaces' = workspaces
        /\ files' = files
        /\ IF name \in DOMAIN workspaces
           THEN /\ ret'.result.status = "success"
                /\ current_workspace_id' = name
           ELSE /\ ret'.result.status = "error"
                /\ ret'.result.message = "Workspace '" \o name \o "' does not exist"
                /\ current_workspace_id' = current_workspace_id
    ]_vars

\* C4 witness: a switch to the unregistered "w1" has just failed while the
\* active workspace holds an object.
C4_Witness ==
    /\ ret.op = "switch_workspace"
    /\ ret.args.name = "w1"
    /\ ret.result.status = "error"
    /\ "w1" \notin DOMAIN workspaces
    /\ current_workspace_id = "default"
    /\ get_current_workspace.current_object # None

\* The tool call of this step returned a success result.
Succeeded(op) ==
    /\ Called(op)
    /\ ret'.outcome = "returned"
    /\ ret'.result.status = "success"

\* The tool call of this step returned an error result with this message.
Failed(op, message) ==
    /\ Called(op)
    /\ ret'.outcome = "returned"
    /\ ret'.result.status = "error"
    /\ ret'.result.message = message

\* C5 as claimed: a successful create_box, whatever the name argument, adds
\* exactly one object to the active workspace (the count grows by one), makes
\* it current and writes a non-empty {name}.stl.
C5_CreateBoxOriginal ==
    [][Succeeded("create_box") =>
        LET name == ret'.result.object_id
            before == get_current_workspace.objects
            after == get_current_workspace'.objects
        IN  /\ Cardinality(DOMAIN after) = Cardinality(DOMAIN before) + 1
            /\ get_current_workspace'.current_object = name
            /\ PathOf(name, "stl") \in DOMAIN files'
            /\ files'[PathOf(name, "stl")] # ""
    ]_vars

\* C5 amended: a successful create_box stores its box under the resolved
\* name in the active workspace and touches no other entry and no other
\* workspace: the count grows by one when the name was not yet a key and
\* stays the same when the name was a key (the entry is overwritten); the
\* object becomes current and a non-empty {name}.stl is written.
C5_CreateBox ==
    [][Succeeded("create_box") =>
        LET a == ret'.args
            name == ret'.result.object_id
            before == get_current_workspace.objects
            after == get_current_workspace'.objects
        IN  /\ name = (IF a.name = None
                       THEN "box_" \o ToString(Cardinality(DOMAIN before))
                       ELSE a.name)
            /\ DOMAIN after = DOMAIN before \cup {name}
            /\ Cardinality(DOMAIN after) =
                 Cardinality(DOMAIN before) + (IF name \in DOMAIN before THEN 0 ELSE 1)
            /\ \A k \in DOMAIN before \ {name} : after[k] = before[k]
            /\ after[name].type = "box"
            /\ after[name].width = a.width
            /\ after[name].length = a.length
            /\ after[name].height = a.height
            /\ after[name].centered = a.centered
            /\ get_current_workspace'.current_object = name
            /\ current_workspace_id' = current_workspace_id
            /\ \A w \in DOMAIN workspaces \ {current_workspace_id} :
                   workspaces'[w] = workspaces[w]
            /\ ret'.result.files.stl = PathOf(name, "stl")
            /\ PathOf(name, "stl") \in DOMAIN files'
            /\ files'[PathOf(name, "stl")] # ""
    ]_vars

\* C5 witness: an unnamed create_box has succeeded under the name box_1 in a
\* workspace that held one object and still holds one: its default name fell
\* on the existing key box_1, which it overwrote.
C5_Witness ==
    /\ ret.op = "create_box"
    /\ ret.outcome = "returned"
    /\ ret.args.name = None
    /\ ret.result.object_id = "box_1"
    /\ DOMAIN get_current_workspace.objects = {"box_1"}
    /\ get_current_workspace.current_object = "box_1"
    /\ files[PathOf("box_1", "stl")] # ""

\* The name prefix of each creating tool.
Prefix(op) ==
    CASE op = "create_box" -> "box"
      [] op = "create_cylinder" -> "cylinder"
      [] op = "boolean_operation" -> "boolean"
      [] op = "execute_cq_script" -> "script"

CreatingTools ==
    {"create_box", "create_cylinder", "boolean_operation", "execute_cq_script"}

\* The keys box_0 .. box_{n-1}.
BoxNames(n) == {"box_" \o ToString(i) : i \in 0..(n - 1)}

\* C6: a creating tool called without a name stores its object under
\* "{prefix}_{count}", count being the number of objects of the active
\* workspace when the call is made; unnamed create_box calls in a workspace
\* holding box_0 .. box_{k-1} make it hold box_0 .. box_k.
C6_DefaultNaming ==
    [][\A op \in CreatingTools :
        (Succeeded(op) /\ ret'.args.name = None) =>
            LET before == get_current_workspace.objects
                after == get_current_workspace'.objects
                name == Prefix(op) \o "_" \o ToString(Cardinality(DOMAIN before))
            IN  /\ ret'.result.object_id = name
                /\ name \in DOMAIN after
                /\ after[name].type = Prefix(op)
                /\ get_current_workspace'.current_object = name
                /\ \A k \in 0..2 :
                       (op = "create_box" /\ DOMAIN before = BoxNames(k)) =>
                           DOMAIN after = BoxNames(k + 1)
    ]_vars

\* C6 witness: the third unnamed create_box in a workspace has returned
\* box_2 and the workspace holds box_0, box_1 and box_2, all boxes.
C6_Witness ==
    /\ ret.op = "create_box"
    /\ ret.outcome = "returned"
    /\ ret.args.name = None
    /\ ret.result.object_id = "box_2"
    /\ DOMAIN get_current_workspace.objects = {"box_0", "box_1", "box_2"}
    /\ \A k \in DOMAIN get_current_workspace.objects :
           get_current_workspace.objects[k].type = "box"

C8_UnknownOperation ==
    [][(/\ Called("boolean_operation")
        /\ ~KnownOperation(ret'.args.operation)
        /\ ret'.args.target \in DOMAIN get_current_workspace.objects
        /\ ret'.args.tool \in DOMAIN get_current_workspace.objects) =>
           /\ Failed("boolean_operation",
                     "Unknown boolean operation: " \o ret'.args.operation)
           /\ workspaces' = workspaces
    ]_vars

\* The artifact at `path` exists, is non-empty and its first line carries
\* the STEP signature.
HasStepSignature(fs, path) ==
    /\ path \in DOMAIN fs
    /\ fs[path] # ""
    /\ Contains(FirstLine(fs[path]), "ISO-10303")

SupportedFormats == {"stl", "step", "stp"}

\* C9 as claimed: export_object answers "not found" for an absent object
\* whatever the format; for an existing object it succeeds only when the
\* lower-cased format is stl, step or stp, and for every other format it
\* returns the "unsupported format" error and no artifact path, with the
\* real kernel and in mock mode alike.
C9_ExportFormats ==
    [][Called("export_object") =>
        LET a == ret'.args
            format == Lower(a.format)
        IN  IF a.name \notin DOMAIN get_current_workspace.objects
            THEN Failed("export_object", "Object '" \o a.name \o "' not found")
            ELSE /\ ret'.outcome = "returned"
                 /\ ret'.result.status = "success" => format \in SupportedFormats
                 /\ format \notin SupportedFormats =>
                      /\ Failed("export_object",
                                "Unsupported export format: " \o format
                                \o ". Supported formats: stl, step, stp")
                      /\ "files" \notin DOMAIN ret'.result
    ]_vars

\* C10 as claimed: export_object with validate = true and a STEP-family
\* format returns success only if the artifact it wrote exists, is non-empty
\* and carries the STEP signature in its first line, and returns an error
\* otherwise; with format stl no validation error is ever returned.
C10_StepValidation ==
    [][(/\ Called("export_object")
        /\ ret'.args.name \in DOMAIN get_current_workspace.objects) =>
        LET a == ret'.args
            format == Lower(a.format)
            path == PathOf(a.name, format)
        IN  /\ ret'.outcome = "returned"
            /\ (a.validate /\ format \in {"step", "stp"}) =>
                 /\ ret'.result.status = "success" => HasStepSignature(files', path)
                 /\ ~HasStepSignature(files', path) => ret'.result.status = "error"
            /\ format = "stl" =>
                 \/ ret'.result.status = "success"
                 \/ ret'.result.message = "Export failed: export"
    ]_vars

\* C11 as claimed: every successful STEP-family export, by export_object with
\* format step or stp as well as by export_step, leaves the companion preview
\* {name}.stl on disk and reports its path among the returned artifact paths.
C11_CompanionStl ==
    [][\A op \in {"export_object", "export_step"} :
        (/\ Succeeded(op)
         /\ op = "export_object" => Lower(ret'.args.format) \in {"step", "stp"}) =>
            LET stl_path == PathOf(ret'.args.name, "stl") IN
            /\ stl_path \in DOMAIN files'
            /\ "stl" \in DOMAIN ret'.result.files
            /\ ret'.result.files["stl"] = stl_path
    ]_vars

\* C12 as claimed: every tool call returns (it never raises), and what it
\* returns is a tagged result: a status equal to success or error, and a
\* message; a failure of the kernel inside a tool is turned into an error
\* result.
C12_TaggedResult ==
    ret.op # "import" =>
        /\ ret.outcome = "returned"
        /\ "status" \in DOMAIN ret.result
        /\ ret.result.status \in {"success", "error"}
        /\ "message" \in DOMAIN ret.result

\* The tool call of this step did not succeed: it raised or returned an error.
NotSucceeded(op) ==
    /\ Called(op)
    /\ IF ret'.outcome = "raised" THEN TRUE ELSE ret'.result.status = "error"

\* C13 as claimed: a creating tool call that fails, by an error result or by
\* a kernel failure during construction or during the preview export, leaves
\* every workspace as it was: no object added or overwritten, no current
\* object moved.
C13_FailedCreation ==
    [][\A op \in CreatingTools : NotSucceeded(op) => workspaces' = workspaces]_vars

\* The name a creating tool call stored (or would store) its object under.
ResolvedName(call, objects) ==
    IF call.args.name = None
    THEN Prefix(call.op) \o "_" \o ToString(Cardinality(DOMAIN objects))
    ELSE call.args.name

\* C14 as claimed: once a name is registered in a workspace, no later step
\* removes it and no later step changes its record.
C14_RecordsOriginal ==
    [][\A w \in DOMAIN workspaces : \A k \in DOMAIN workspaces[w].objects :
        /\ w \in DOMAIN workspaces'
        /\ k \in DOMAIN workspaces'[w].objects
        /\ workspaces'[w].objects[k] = workspaces[w].objects[k]
    ]_vars

\* C14 amended: once a name is registered in a workspace, no later step
\* removes it, and its record changes only in a step of a creating tool, run
\* while that workspace is active, whose explicit or default name is that
\* same name (the entry is overwritten, even when the call then fails in the
\* preview export); the tools that read objects change no record.
C14_Records ==
    [][\A w \in DOMAIN workspaces : \A k \in DOMAIN workspaces[w].objects :
        /\ w \in DOMAIN workspaces'
        /\ k \in DOMAIN workspaces'[w].objects
        /\ workspaces'[w].objects[k] # workspaces[w].objects[k] =>
              /\ w = current_workspace_id
              /\ ret'.op \in CreatingTools
              /\ ResolvedName(ret', workspaces[w].objects) = k
    ]_vars

\* C14 witness: with the real kernel, box_1 is registered with a record whose
\* mesh differs from the preview box_1.stl on disk: the preview was written
\* for an earlier record under that name, which a later create_box replaced
\* before failing in its own preview export.
C14_Witness ==
    /\ CADQUERY_AVAILABLE
    /\ ret.op = "create_box"
    /\ ret.outcome = "raised"
    /\ "box_1" \in DOMAIN get_current_workspace.objects
    /\ PathOf("box_1", "stl") \in DOMAIN files
    /\ files[PathOf("box_1", "stl")] #
           EngineStl(get_current_workspace.objects["box_1"].workplane)

\* C15 as claimed: a successful creation without an explicit name never
\* falls on an existing object: its default name "{prefix}_{count}" is not a
\* key of the active workspace when the call is made, whatever mix of named
\* and unnamed creations came before.
C15_DefaultNameFresh ==
    [][\A op \in CreatingTools :
        (Succeeded(op) /\ ret'.args.name = None) =>
            /\ ret'.result.object_id =
                   ResolvedName(ret', get_current_workspace.objects)
            /\ ret'.result.object_id \notin DOMAIN get_current_workspace.objects
    ]_vars

\* C16 as claimed: execute_cq_script on a script that raises returns an error
\* whose message includes the cause, and on a script that binds no `result`
\* returns the missing-result error; in both cases no workspace changes
\* (nothing is registered, the current object stays), with the real kernel
\* and in mock mode alike.
C16_ScriptErrors ==
    [][Called("execute_cq_script") =>
        LET run == ScriptRun(ret'.args.script) IN
        /\ run.raises # None =>
              /\ ret'.outcome = "returned"
              /\ ret'.result.status = "error"
              /\ Contains(ret'.result.message, run.raises)
              /\ workspaces' = workspaces
        /\ (run.raises = None /\ ~run.bound) =>
              /\ Failed("execute_cq_script",
                        "Script must define a 'result' variable containing the CadQuery object")
              /\ workspaces' = workspaces
    ]_vars

\* The call is export_object(name, "stl", validate = true), in any letter
\* case of the format, and it returned success.
StlExported(call) ==
    /\ call.op = "export_object"
    /\ call.outcome = "returned"
    /\ call.result.status = "success"
    /\ Lower(call.args.format) = "stl"
    /\ call.args.validate

\* C17: every successful export_object(name, "stl", validate = true) changes
\* no workspace, reports {temp_dir}/{name}.stl and writes that file only; and
\* when the call before it was the same successful export of the same name
\* (so nothing was created in between), it reports the same path and leaves
\* every file, the artifact included, with the content it had.
C17_StlExportIdempotent ==
    [][(StlExported(ret') /\ vars' # vars) =>
        LET name == ret'.args.name
            path == PathOf(name, "stl")
        IN  /\ workspaces' = workspaces
            /\ current_workspace_id' = current_workspace_id
            /\ ret'.result.files["stl"] = path
            /\ path \in DOMAIN files'
            /\ \A f \in DOMAIN files : f # path => files'[f] = files[f]
            /\ DOMAIN files' = DOMAIN files \cup {path}
            /\ (StlExported(ret) /\ ret.args.name = name) =>
                  /\ ret'.result.files = ret.result.files
                  /\ files' = files
    ]_vars

\* C17 witness: with the real kernel, export_object(name, "stl", true) has
\* succeeded on a box of the active workspace and its artifact holds the mesh
\* of that box; the same call made again from this state is the second
\* export of the claim.
C17_Witness ==
    /\ CADQUERY_AVAILABLE
    /\ StlExported(ret)
    /\ ret.args.format = "stl"
    /\ ret.args.name \in DOMAIN get_current_workspace.objects
    /\ get_current_workspace.objects[ret.args.name].type = "box"
    /\ files[ret.result.files["stl"]] =
           EngineStl(get_current_workspace.objects[ret.args.name].workplane)

\* The path ends, in any letter case, with a step-family suffix.
HasStepSuffix(path) ==
    EndsWith(Lower(path), ".step") \/ EndsWith(Lower(path), ".stp")

\* C18: export_step on a name absent from the active workspace returns "not
\* found" and writes nothing.  On an existing object it changes no workspace
\* and returns either success or, with the real kernel only, the error of a
\* failed kernel call, never a validation error.  On success the reported
\* step path is {temp_dir}/{name}.step when no filepath (none or empty) was
\* given, the filepath itself when it ends in .step or .stp in any letter
\* case, and the filepath with .step appended otherwise, so it always has a
\* step-family suffix; the STEP file is on disk at that path, and the
\* companion {temp_dir}/{name}.stl is reported and freshly written whatever
\* the filepath.
C18_ExportStep ==
    [][Called("export_step") =>
        LET name == ret'.args.name
            filepath == ret'.args.filepath
            objects == get_current_workspace.objects
            given == filepath # None /\ filepath # ""
        IN  /\ workspaces' = workspaces
            /\ current_workspace_id' = current_workspace_id
            /\ ret'.outcome = "returned"
            /\ IF name \notin DOMAIN objects
               THEN /\ Failed("export_step", "Object '" \o name \o "' not found")
                    /\ files' = files
               ELSE IF ret'.result.status = "success"
               THEN LET step == ret'.result.files.step
                        stl == ret'.result.files.stl
                    IN  /\ ~given => step = temp_dir \o "/" \o name \o ".step"
                        /\ (given /\ HasStepSuffix(filepath)) => step = filepath
                        /\ (given /\ ~HasStepSuffix(filepath)) =>
                              step = filepath \o ".step"
                        /\ HasStepSuffix(step)
                        /\ step \in DOMAIN files' /\ files'[step] # ""
                        /\ stl = temp_dir \o "/" \o name \o ".stl"
                        /\ stl \in DOMAIN files'
                        /\ files'[stl] =
                              (IF CADQUERY_AVAILABLE
                               THEN EngineStl(objects[name].workplane)
                               ELSE "Mock STL file content for " \o name)
               ELSE /\ CADQUERY_AVAILABLE
                    /\ SubSeq(ret'.result.message, 1, 20) = "STEP export failed: "
    ]_vars

\* C18 witness: export_step(name, "out") has succeeded: the STEP file is at
\* "out.step", outside the scratch directory, and the companion preview is
\* at {temp_dir}/{name}.stl.
C18_Witness ==
    /\ ret.op = "export_step"
    /\ ret.outcome = "returned"
    /\ ret.result.status = "success"
    /\ ret.args.filepath = "out"
    /\ ret.result.files.step = "out.step"
    /\ "out.step" \in DOMAIN files
    /\ ret.result.files.stl = PathOf(ret.args.name, "stl")
    /\ PathOf(ret.args.name, "stl") \in DOMAIN files

\* The processes that are running.
RunningProcesses == {p \in DOMAIN processes : processes[p] = "running"}

\* This step is a call of launch_cq_editor / of close_cq_editor (and not the
\* editor process ending by itself, which leaves `ret` as it was).
LaunchStep ==
    \E outcomes \in [1..Len(potential_paths) -> LaunchOutcomes] :
        launch_cq_editor(outcomes)

CloseStep ==
    \E graceful \in GracefulOutcomes, kill \in KillOutcomes :
        close_cq_editor(graceful, kill)

\* The Popen calls for the first k candidate paths, in their fixed order.
PopenCalls(k) == [i \in 1..k |-> PopenCall(potential_paths[i])]

\* C19: at most one editor process is alive, and it is the tracked one.  A
\* launch while the tracked process is running returns success without any
\* Popen call and without touching the processes.  A launch while it is not
\* running makes the Popen calls of the candidates in their fixed order and
\* stops at the first candidate whose process is alive after the grace
\* period: it returns success exactly when there is one, that process is the
\* tracked one, every process spawned before it has exited, and no later
\* candidate is tried; when every candidate fails all of them were tried and
\* the call returns an error result, it does not raise.
C19_StartEditor ==
    /\ [](/\ Cardinality(RunningProcesses) <= 1
          /\ RunningProcesses \subseteq {bridge.cq_editor_process})
    /\ [][LaunchStep =>
            LET before == Len(processes)
                after == Len(processes')
                k == Len(os_calls')
            IN  /\ ret'.outcome = "returned"
                /\ IF bridge.cq_editor_process # NoProcess
                      /\ processes[bridge.cq_editor_process] = "running"
                   THEN /\ ret'.result.status = "success"
                        /\ os_calls' = <<>>
                        /\ processes' = processes
                        /\ bridge' = bridge
                   ELSE /\ k \in 1..Len(potential_paths)
                        /\ os_calls' = PopenCalls(k)
                        /\ after - before <= k
                        /\ SubSeq(processes', 1, before) = processes
                        /\ IF ret'.result.status = "success"
                           THEN /\ after > before
                                /\ bridge'.cq_editor_process = after
                                /\ processes'[after] = "running"
                                /\ \A q \in (before + 1)..(after - 1) :
                                       processes'[q] = "exited"
                           ELSE /\ ret'.result.status = "error"
                                /\ k = Len(potential_paths)
                                /\ \A q \in (before + 1)..after :
                                       processes'[q] = "exited"
       ]_vars

\* C19 witness: a launch has just returned success without any Popen call,
\* because the tracked process, spawned for the second candidate tried by an
\* earlier launch, is still running.
C19_Witness ==
    /\ ret.op = "launch_cq_editor"
    /\ ret.result.status = "success"
    /\ os_calls = <<>>
    /\ processes = <<"exited", "running">>
    /\ bridge.cq_editor_process = 2

\* The tracked editor process is running.
TrackedRunning ==
    /\ bridge.cq_editor_process # NoProcess
    /\ processes[bridge.cq_editor_process] = "running"

\* The calls of one stop: terminate() first whenever a process is tracked,
\* kill() only as the last call, after terminate() and only in a stop that
\* reports failure; with no process tracked, success and no call at all.
StopOrder ==
    /\ ret'.outcome = "returned"
    /\ bridge' = bridge
    /\ IF bridge.cq_editor_process = NoProcess
       THEN /\ ret'.result.status = "success"
            /\ os_calls' = <<>>
            /\ processes' = processes
       ELSE /\ os_calls' # <<>>
            /\ os_calls'[1] = <<"terminate">>
            /\ \A i \in DOMAIN os_calls' :
                   os_calls'[i] = <<"kill">> =>
                       /\ i = Len(os_calls')
                       /\ i > 1
                       /\ ret'.result.status = "error"
            /\ ret'.result.status = "error" =>
                   os_calls'[Len(os_calls')] = <<"kill">>

\* C20 as claimed: a stop attempts the graceful termination first and kills
\* only after it failed or timed out; with no process tracked it returns
\* success without acting; and whatever it returns, the tracked process is
\* not running afterwards, so that a launch that follows a stop always
\* spawns a fresh process.
C20_StopOriginal ==
    /\ [][CloseStep => (StopOrder /\ ~TrackedRunning')]_vars
    /\ [][(LaunchStep /\ ret.op = "close_cq_editor") => os_calls' # <<>>]_vars

\* C20 amended: a stop attempts the graceful termination first and kills
\* only after it failed or timed out; with no process tracked it returns
\* success without acting.  After a stop that returned success the tracked
\* process is not running and the launch that follows spawns a fresh
\* process.  After a stop that returned failure the kill has been attempted
\* but the process may still be running, and then the launch that follows
\* reports success without spawning anything.
C20_Stop ==
    /\ [][CloseStep =>
            /\ StopOrder
            /\ ret'.result.status = "success" => ~TrackedRunning'
       ]_vars
    /\ [][(LaunchStep /\ ret.op = "close_cq_editor") =>
            /\ ret.result.status = "success" => os_calls' # <<>>
            /\ TrackedRunning =>
                  /\ ret.result.status = "error"
                  /\ ret'.result.status = "success"
                  /\ os_calls' = <<>>
                  /\ processes' = processes
            /\ ~TrackedRunning => os_calls' # <<>>
       ]_vars

\* C20 witness: a stop has returned failure after terminate(), a wait() that
\* timed out and kill(), and the tracked process is still running.
C20_Witness ==
    /\ ret.op = "close_cq_editor"
    /\ ret.result.status = "error"
    /\ os_calls = << <<"terminate">>, <<"wait">>, <<"kill">> >>
    /\ TrackedRunning

\* C21 as claimed: a workspace that holds an object has a current object; a
\* workspace's current object changes only in a step of a successful creating
\* tool run while that workspace is active, and then it is the object that
\* call names, so that it is always the one named by the most recent
\* successful creation there; a superseded object stays registered, and
\* switching workspaces changes no workspace's current object.
C21_CurrentObject ==
    /\ [](\A w \in DOMAIN workspaces :
            workspaces[w].objects # <<>> => workspaces[w].current_object # None)
    /\ [][/\ \A w \in DOMAIN workspaces :
               /\ w \in DOMAIN workspaces'
               /\ DOMAIN workspaces[w].objects \subseteq DOMAIN workspaces'[w].objects
               /\ workspaces'[w].current_object # workspaces[w].current_object =>
                     /\ w = current_workspace_id
                     /\ \E op \in CreatingTools : Succeeded(op)
                     /\ workspaces'[w].current_object = ret'.result.object_id
          /\ \A op \in CreatingTools :
               Succeeded(op) =>
                   workspaces'[current_workspace_id].current_object =
                       ret'.result.object_id
       ]_vars

\* The fields a successful creating call must have stored, given the objects
\* of the active workspace when it was made.
StoredAsAsked(call, record, before) ==
    /\ record.type = Prefix(call.op)
    /\ call.op = "create_box" =>
          /\ record.width = call.args.width
          /\ record.length = call.args.length
          /\ record.height = call.args.height
          /\ record.centered = call.args.centered
    /\ call.op = "create_cylinder" =>
          /\ record.radius = call.args.radius
          /\ record.height = call.args.height
    /\ call.op = "boolean_operation" =>
          /\ record.operation = call.args.operation
          /\ record.target = call.args.target
          /\ record.tool = call.args.tool
          /\ CADQUERY_AVAILABLE =>
                record.workplane =
                    EngineBoolean(call.args.operation,
                                  before[call.args.target].workplane,
                                  before[call.args.tool].workplane)
    /\ call.op = "execute_cq_script" => record.script = call.args.script

\* C22: a successful creating tool call with an explicit name that is a key
\* of the active workspace overwrites that entry: the keys, and so the count,
\* are unchanged, the entry holds the record of this call, it is the current
\* object, and every other entry and every other workspace is untouched.  For
\* boolean_operation this holds also when the name is its own target or tool:
\* the result, computed from the operands as they were, replaces the operand.
C22_Overwrite ==
    [][\A op \in CreatingTools :
        (/\ Succeeded(op)
         /\ ret'.args.name # None
         /\ ret'.args.name \in DOMAIN get_current_workspace.objects) =>
            LET name == ret'.args.name
                before == get_current_workspace.objects
                after == workspaces'[current_workspace_id].objects
            IN  /\ ret'.result.object_id = name
                /\ DOMAIN after = DOMAIN before
                /\ Cardinality(DOMAIN after) = Cardinality(DOMAIN before)
                /\ StoredAsAsked(ret', after[name], before)
                /\ workspaces'[current_workspace_id].current_object = name
                /\ \A k \in DOMAIN before \ {name} : after[k] = before[k]
                /\ current_workspace_id' = current_workspace_id
                /\ \A w \in DOMAIN workspaces \ {current_workspace_id} :
                       workspaces'[w] = workspaces[w]
    ]_vars

\* C22 witness: a boolean_operation named after its own target has succeeded:
\* the key that held the target box now holds the boolean result, and the
\* workspace still holds two objects.
C22_Witness ==
    /\ ret.op = "boolean_operation"
    /\ ret.outcome = "returned"
    /\ ret.result.status = "success"
    /\ ret.args.name = ret.args.target
    /\ ret.args.tool # ret.args.target
    /\ Cardinality(DOMAIN get_current_workspace.objects) = 2
    /\ get_current_workspace.objects[ret.args.name].type = "boolean"
    /\ get_current_workspace.current_object = ret.args.name

\* C23: a boolean result's record carries the operation and the target and
\* tool names it was created with.  Once stored it stays registered and its
\* record, geometry included, changes in no step except a creating call that
\* stores under the result's own name: creating, overwriting or re-creating
\* an object under the target's or the tool's name leaves it as it was.  And
\* a boolean_operation whose result name differs from both operands leaves
\* the records of its operands as they were.
C23_DerivedRecord ==
    [][/\ \A w \in DOMAIN workspaces : \A k \in DOMAIN workspaces[w].objects :
            workspaces[w].objects[k].type = "boolean" =>
                \/ /\ k \in DOMAIN workspaces'[w].objects
                   /\ workspaces'[w].objects[k] = workspaces[w].objects[k]
                \/ /\ ret'.op \in CreatingTools
                   /\ w = current_workspace_id
                   /\ ResolvedName(ret', workspaces[w].objects) = k
       /\ Succeeded("boolean_operation") =>
            LET a == ret'.args
                before == get_current_workspace.objects
                after == workspaces'[current_workspace_id].objects
                name == ret'.result.object_id
            IN  /\ after[name].type = "boolean"
                /\ after[name].operation = a.operation
                /\ after[name].target = a.target
                /\ after[name].tool = a.tool
                /\ name \notin {a.target, a.tool} =>
                      /\ after[a.target] = before[a.target]
                      /\ after[a.tool] = before[a.tool]
    ]_vars

\* C23 witness: with the real kernel, a box has just been created under the
\* name that a registered boolean result records as its target, and the
\* result's geometry is still built from the box that held the name before.
C23_Witness ==
    /\ CADQUERY_AVAILABLE
    /\ ret.op = "create_box"
    /\ ret.outcome = "returned"
    /\ \E k \in DOMAIN get_current_workspace.objects :
          LET r == get_current_workspace.objects[k] IN
          /\ r.type = "boolean"
          /\ r.target = ret.result.object_id
          /\ k # r.target
          /\ ~Contains(r.workplane,
                       get_current_workspace.objects[r.target].workplane)

\* The name is a key of some workspace other than the active one.
InOtherWorkspace(name) ==
    \E w \in DOMAIN workspaces \ {current_workspace_id} :
        name \in DOMAIN workspaces[w].objects

\* C24: a creating tool call, successful or not, leaves the active-workspace
\* pointer and every workspace other than the active one as they were, and
\* stores under a name whatever other workspaces hold under it; a successful
\* boolean_operation builds its result from the operands of the active
\* workspace although another workspace holds other objects under the same
\* names; and export_object, export_step and boolean_operation, given a name
\* that is a key only of a non-active workspace, return "not found" and
\* change no workspace and no file.
C24_Isolation ==
    [][LET active == workspaces[current_workspace_id].objects IN
       /\ \A op \in CreatingTools : Called(op) =>
             /\ current_workspace_id' = current_workspace_id
             /\ DOMAIN workspaces' = DOMAIN workspaces
             /\ \A w \in DOMAIN workspaces \ {current_workspace_id} :
                    workspaces'[w] = workspaces[w]
       /\ (Succeeded("boolean_operation") /\ CADQUERY_AVAILABLE) =>
             workspaces'[current_workspace_id].objects[ret'.result.object_id].workplane =
                 EngineBoolean(ret'.args.operation,
                               active[ret'.args.target].workplane,
                               active[ret'.args.tool].workplane)
       /\ \A op \in {"export_object", "export_step"} :
             (Called(op) /\ ret'.args.name \notin DOMAIN active) =>
                 /\ Failed(op, "Object '" \o ret'.args.name \o "' not found")
                 /\ workspaces' = workspaces
                 /\ files' = files
       /\ (Called("boolean_operation") /\ ret'.args.target \notin DOMAIN active) =>
             /\ Failed("boolean_operation",
                       "Target object '" \o ret'.args.target \o "' not found")
             /\ workspaces' = workspaces
             /\ files' = files
       /\ (/\ Called("boolean_operation")
           /\ ret'.args.target \in DOMAIN active
           /\ ret'.args.tool \notin DOMAIN active) =>
             /\ Failed("boolean_operation",
                       "Tool object '" \o ret'.args.tool \o "' not found")
             /\ workspaces' = workspaces
             /\ files' = files
    ]_vars

\* C24 witness: with the real kernel, export_step has just answered "not
\* found" for box_1 while the workspace that is not active holds a box under
\* the name box_1.
C24_Witness ==
    /\ CADQUERY_AVAILABLE
    /\ ret.op = "export_step"
    /\ ret.result.status = "error"
    /\ ret.args.name = "box_1"
    /\ "box_1" \notin DOMAIN workspaces[current_workspace_id].objects
    /\ InOtherWorkspace("box_1")

\* C24, same name in two workspaces: box_1 has just been created in the
\* active workspace while the other workspace holds a different box under
\* box_1, which is as it was.
C24_SameName ==
    /\ ret.op = "create_box"
    /\ ret.outcome = "returned"
    /\ ret.result.object_id = "box_1"
    /\ \E w \in DOMAIN workspaces \ {current_workspace_id} :
          /\ "box_1" \in DOMAIN workspaces[w].objects
          /\ workspaces[w].objects["box_1"] #
                 workspaces[current_workspace_id].objects["box_1"]

\* The tools that only read the registry.
ReadingTools ==
    {"get_workspace_info", "export_object", "export_step",
     "render_current_object", "update_cq_script", "sync_object_from_editor"}

SyncedText == TextRead(bridge_files[script_file])

\* C26 as claimed: a sync returns exactly the text passed to the most recent
\* successful update_cq_script, or the initial template when there was none:
\* the text a sync would return is the template at the start, becomes the
\* text passed by every successful update (which replaces, not extends, what
\* was there) and is changed by no other step, a failed update included; an
\* update whose write fails returns an error result and does not raise.
C26_ScriptRoundTrip ==
    /\ [](ret.op = "import" => SyncedText = InitialScript)
    /\ [][/\ Succeeded("update_cq_script") => SyncedText' = ret'.args.script
          /\ ~Succeeded("update_cq_script") =>
                \/ bridge_files' = bridge_files
                \/ SyncedText' = SyncedText
          /\ Succeeded("sync_object_from_editor") =>
                ret'.result.script = SyncedText
          /\ Called("update_cq_script") =>
                /\ ret'.outcome = "returned"
                /\ ret'.result.status \in {"success", "error"}
       ]_vars

Requests == 1..MaxRequests

\* The locals of a tool call that has been accepted and has not run yet.
Accepted(tool, args) ==
    [tool |-> tool, args |-> args, pc |-> "start",
     workspace |-> None, name |-> None, result |-> None]

\* The host hands a call to a thread.
accept(r, tool, args) ==
    /\ r \notin DOMAIN in_flight
    /\ in_flight' = (r :> Accepted(tool, args)) @@ in_flight
    /\ UNCHANGED <<CADQUERY_AVAILABLE, workspaces, current_workspace_id, files, ret>>
    /\ UNCHANGED editor_vars

At(r, tool, pc) ==
    /\ r \in DOMAIN in_flight
    /\ in_flight[r].tool = tool
    /\ in_flight[r].pc = pc

\* workspace = get_current_workspace(): the local refers to the dict of the
\* workspace that is active at this moment.
create_box_get_workspace(r) ==
    /\ At(r, "create_box", "start")
    /\ in_flight' = [in_flight EXCEPT ![r].workspace = current_workspace_id,
                                      ![r].pc = "name"]
    /\ UNCHANGED <<CADQUERY_AVAILABLE, workspaces, current_workspace_id, files, ret>>
    /\ UNCHANGED editor_vars

\* if name is None: name = f'box_{len(workspace["objects"])}'
create_box_name(r) ==
    LET workspace == workspaces[in_flight[r].workspace]
        name == IF in_flight[r].args.name = None
                THEN "box_" \o ToString(Cardinality(DOMAIN workspace.objects))
                ELSE in_flight[r].args.name
    IN
    /\ At(r, "create_box", "name")
    /\ in_flight' = [in_flight EXCEPT ![r].name = name, ![r].pc = "store"]
    /\ UNCHANGED <<CADQUERY_AVAILABLE, workspaces, current_workspace_id, files, ret>>
    /\ UNCHANGED editor_vars

\* workspace["objects"][name] = {...}, on the dict the local refers to.
create_box_store(r) ==
    LET a == in_flight[r].args IN
    /\ At(r, "create_box", "store")
    /\ workspaces' = [workspaces EXCEPT ![in_flight[r].workspace].objects =
                         (in_flight[r].name :>
                             BoxRecord(a.width, a.length, a.height, a.centered)) @@ @]
    /\ in_flight' = [in_flight EXCEPT ![r].pc = "current"]
    /\ UNCHANGED <<CADQUERY_AVAILABLE, current_workspace_id, files, ret>>
    /\ UNCHANGED editor_vars

\* workspace["current_object"] = name, on the same dict.
create_box_current(r) ==
    /\ At(r, "create_box", "current")
    /\ workspaces' = [workspaces EXCEPT
                         ![in_flight[r].workspace].current_object = in_flight[r].name]
    /\ in_flight' = [in_flight EXCEPT ![r].pc = "export"]
    /\ UNCHANGED <<CADQUERY_AVAILABLE, current_workspace_id, files, ret>>
    /\ UNCHANGED editor_vars

\* The preview export and the return statement.
create_box_export(r) ==
    LET a == in_flight[r].args
        name == in_flight[r].name
        result == BoxResult(name, a.width, a.length, a.height)
    IN
    /\ At(r, "create_box", "export")
    /\ files' = WriteFile(files, PathOf(name, "stl"),
                    IF CADQUERY_AVAILABLE
                    THEN EngineStl(EngineBox(a.width, a.length, a.height, a.centered))
                    ELSE "Mock STL file content")
    /\ ret' = Returned("create_box", a, result)
    /\ in_flight' = [in_flight EXCEPT ![r].result = result, ![r].pc = "done"]
    /\ UNCHANGED <<CADQUERY_AVAILABLE, workspaces, current_workspace_id>>
    /\ UNCHANGED editor_vars

\* if name not in workspaces: return the error
switch_workspace_test(r) ==
    LET a == in_flight[r].args
        result == [status |-> "error",
                   message |-> "Workspace '" \o a.name \o "' does not exist"]
    IN
    /\ At(r, "switch_workspace", "start")
    /\ IF SwitchGuard(a.name)
       THEN /\ ret' = Returned("switch_workspace", a, result)
            /\ in_flight' = [in_flight EXCEPT ![r].result = result, ![r].pc = "done"]
       ELSE /\ in_flight' = [in_flight EXCEPT ![r].pc = "assign"]
            /\ UNCHANGED ret
    /\ UNCHANGED <<CADQUERY_AVAILABLE, workspaces, current_workspace_id, files>>
    /\ UNCHANGED editor_vars

\* current_workspace_id = name, and the return statement.
switch_workspace_assign(r) ==
    LET a == in_flight[r].args
        result == [status |-> "success",
                   message |-> "Switched to workspace: " \o a.name,
                   workspace_id |-> a.name]
    IN
    /\ At(r, "switch_workspace", "assign")
    /\ current_workspace_id' = a.name
    /\ ret' = Returned("switch_workspace", a, result)
    /\ in_flight' = [in_flight EXCEPT ![r].result = result, ![r].pc = "done"]
    /\ UNCHANGED <<CADQUERY_AVAILABLE, workspaces, files>>
    /\ UNCHANGED editor_vars

\* The calls the host accepts: create_box(2, 3, 4) without a name, and
\* switch_workspace to any of the workspace names.
AcceptCreateBox ==
    \E r \in Requests :
        accept(r, "create_box",
               [width |-> 2, length |-> 3, height |-> 4, centered |-> TRUE,
                name |-> None])

AcceptSwitchWorkspace ==
    \E r \in Requests, name \in WsNames :
        accept(r, "switch_workspace", [name |-> name])

CreateBoxStep ==
    \E r \in Requests :
        \/ create_box_get_workspace(r)
        \/ create_box_name(r)
        \/ create_box_store(r)
        \/ create_box_current(r)
        \/ create_box_export(r)

SwitchWorkspaceStep ==
    \E r \in Requests :
        \/ switch_workspace_test(r)
        \/ switch_workspace_assign(r)

\* The workspace w1 is created by a call that ran alone; after that the host
\* runs up to MaxRequests calls on threads of their own.
NextInterleaved ==
    \/ (in_flight = <<>> /\ CreateWorkspace)
    \/ AcceptCreateBox
    \/ AcceptSwitchWorkspace
    \/ CreateBoxStep
    \/ SwitchWorkspaceStep

SpecInterleaved == Init /\ [][NextInterleaved]_vars

\* The default-named creations that have returned, per workspace.
DoneCreations(w) ==
    {r \in DOMAIN in_flight :
        /\ in_flight[r].tool = "create_box"
        /\ in_flight[r].pc = "done"
        /\ in_flight[r].args.name = None
        /\ in_flight[r].workspace = w}

\* A creating call sets the pointer in the workspace it stored its object in.
C28_SingleWorkspace ==
    [][\A r \in DOMAIN in_flight :
          (At(r, "create_box", "current") /\ in_flight'[r].pc = "export")
          => \E w \in DOMAIN workspaces :
                /\ in_flight[r].name \in DOMAIN workspaces[w].objects
                /\ workspaces'[w].current_object = in_flight[r].name
                /\ workspaces'[w].objects = workspaces[w].objects
                /\ \A v \in DOMAIN workspaces \ {w} : workspaces'[v] = workspaces[v]]_vars

\* C28: when the host interleaves requests, each request is atomic: the
\* default-named creations that returned in one workspace registered as many
\* distinct objects as there are such creations, and a creation that runs
\* together with a switch_workspace stores its object and sets the
\* current-object pointer in one and the same workspace.
C28_Atomic ==
    /\ [](\A w \in DOMAIN workspaces :
            /\ \A r1, r2 \in DoneCreations(w) :
                   r1 # r2 => in_flight[r1].result.object_id # in_flight[r2].result.object_id
            /\ Cardinality(DOMAIN workspaces[w].objects) >= Cardinality(DoneCreations(w)))
    /\ C28_SingleWorkspace

====
